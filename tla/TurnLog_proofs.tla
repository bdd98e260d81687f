--------------------------- MODULE TurnLog_proofs ---------------------------
(***************************************************************************)
(* Proofs about the index of the session store, the events a flush has     *)
(* confirmed, and persist_turn, as long as writes, fsyncs and the index    *)
(* work.                                                                   *)
(*                                                                         *)
(* RowsOK says that the index, and what is on its way there, is on disk,   *)
(* KeysOK that no two of its rows share a key, OnceOK that an event is in  *)
(* one place, OkKnown that the index has what was confirmed.               *)
(*                                                                         *)
(* The readers: OwnOnce gives a segment one id of its own, Forest lets     *)
(* every row lead down to one row whose file it stands for, no two rows of *)
(* a session to the same one.  Covered says of rebuild_index that each row *)
(* then ends at the last record of its file.  InheritInv follows what a    *)
(* fork has seen: its copied rows stand for synced parts of files, which   *)
(* no later step changes.                                                  *)
(***************************************************************************)
EXTENDS TurnLog, SessionStore_proofs

-----------------------------------------------------------------------------
(* The index says nothing that is not on disk.                             *)

\* What is on disk stays, and so do the fork points of the sessions that have files.
Moved == \A s \in Session : StaysPut(s) /\ (base'[s] = base[s] \/ file[s] = <<>>)

LEMMA MovedStep ==
  ASSUME BaseInv, BaseInv', FileInv, ~IoErrors, [Next]_vars
  PROVE  Moved
<1>1. \A s \in Session : StaysPut(s)
  BY FileStep
<1>2. ASSUME NEW p \in Session, NEW c \in Session, NEW n \in 0 .. MaxEvents, Fork(p, n, c)
      PROVE  \A s \in Session : base'[s] = base[s] \/ file[s] = <<>>
  <2>1. file[c] = <<>> /\ base' = [base EXCEPT ![c] = [from |-> n, seen |-> {x \in Replay(p) : x.seq < n}]]
    BY <1>2, ForkIs
  <2>2. QED
    BY <2>1 DEF BaseInv, StoreTypes, GhostOK
<1>3. ASSUME NEW f \in Flusher, FlushStep(f) PROVE base' = base
  BY <1>3 DEF FlushStep, OpenGroup, Roll, Write, Sync, InsertSegment, InsertEvents, Confirm, Refuse,
              WriteFails, SyncFails, IndexFails, FlushFails, ghostVars
<1>4. ASSUME NEW f \in Flusher, (\E s \in Session : AppendEvent(f, s)) \/ TakeBatch(f) \/ FlushNothing(f)
      PROVE  base' = base
  BY <1>4 DEF AppendEvent, TakeBatch, FlushNothing, ghostVars
<1>5. ASSUME Crash \/ UNCHANGED vars \/ \E s \in Session : Rebuild(s) PROVE base' = base
  BY <1>5 DEF Crash, Rebuild, vars, ghostVars
<1>6. QED
  BY <1>1, <1>2, <1>3, <1>4, <1>5 DEF Moved, Next

LEMMA OnDiskStays ==
  ASSUME Moved, NEW q, q.sess \in Session, OnDisk(q)
  PROVE  OnDisk(q)'
BY DEF Moved, OnDisk, StaysPut

LEMMA RowStays ==
  ASSUME Moved, NEW r, r.sess \in Session, RowOnDisk(r)
  PROVE  RowOnDisk(r)'
<1>1. Kept(r.sess, r.idx, r.end - r.start + 1)' /\ file[r.sess] # <<>>
  BY DEF Moved, RowOnDisk, StaysPut, Kept
<1>2. From(r.sess, r.idx)' = From(r.sess, r.idx)
  BY <1>1 DEF Moved, From
<1>3. QED
  BY <1>1, <1>2 DEF RowOnDisk

LEMMA NotedStays ==
  ASSUME Moved, NEW s \in Session, Noted(s), lastOff'[s] = lastOff[s]
  PROVE  Noted(s)'
BY DEF Moved, Noted, StaysPut

LEMMA MetaIn ==
  ASSUME BaseInv, NEW f \in Flusher, NEW m \in Elems(metas[f])
  PROVE  m \in SegmentRow /\ m.sess \in Session
<1>1. metas[f] \in Seq(SegmentRow)
  BY DEF BaseInv, StoreTypes, FlushOK
<1>2. m \in SegmentRow
  BY <1>1 DEF Elems
<1>3. QED
  BY <1>2 DEF SegmentRow

\* Only what is new in the index, or about to go there, has to be looked up.
LEMMA RowsStep ==
  ASSUME BaseInv, RowsOK, Moved,
         \A s \in Session : cur[s] # NoState => cur'[s] # NoState,
         \A q \in events' : q \in events \/ OnDisk(q)',
         \A f \in Flusher : \A q \in rows'[f] : q \in rows[f] \/ (OnDisk(q)' /\ cur'[q.sess] # NoState),
         \A r \in segments' : r.parent = 0 => r \in segments \/ RowOnDisk(r)',
         \A f \in Flusher : \A m \in Elems(metas'[f]) :
           m \in Elems(metas[f]) \/ (RowOnDisk(m)' /\ cur'[m.sess] # NoState),
         \A s \in Session : lastOff'[s] = lastOff[s] \/ Noted(s)'
  PROVE  RowsOK'
<1>1. EventsOnDisk'
  <2> SUFFICES ASSUME NEW q \in events', q \in events PROVE OnDisk(q)'
    BY DEF EventsOnDisk
  <2>1. OnDisk(q) /\ q.sess \in Session
    BY DEF RowsOK, EventsOnDisk, BaseInv, StoreTypes, IndexOK, RowOf
  <2>2. QED
    BY <2>1, OnDiskStays
<1>2. RowsOnDisk'
  <2> SUFFICES ASSUME NEW f \in Flusher, NEW q \in rows'[f], q \in rows[f] PROVE OnDisk(q)' /\ cur'[q.sess] # NoState
    BY DEF RowsOnDisk
  <2>1. OnDisk(q) /\ cur[q.sess] # NoState
    BY DEF RowsOK, RowsOnDisk
  <2>2. q.sess \in Session
    BY DEF BaseInv, StoreTypes, FlushOK, RowOf
  <2>3. QED
    BY <2>1, <2>2, OnDiskStays
<1>3. SegmentsOnDisk'
  <2> SUFFICES ASSUME NEW r \in segments', r.parent = 0, r \in segments PROVE RowOnDisk(r)'
    BY DEF SegmentsOnDisk
  <2>1. RowOnDisk(r) /\ r.sess \in Session
    BY DEF RowsOK, SegmentsOnDisk, BaseInv, StoreTypes, IndexOK, SegmentRow
  <2>2. QED
    BY <2>1, RowStays
<1>4. MetasOnDisk'
  <2> SUFFICES ASSUME NEW f \in Flusher, NEW m \in Elems(metas'[f]), m \in Elems(metas[f])
               PROVE  RowOnDisk(m)' /\ cur'[m.sess] # NoState
    BY DEF MetasOnDisk, Elems
  <2>1. RowOnDisk(m) /\ cur[m.sess] # NoState /\ m.sess \in Session
    BY MetaIn DEF RowsOK, MetasOnDisk
  <2>2. QED
    BY <2>1, RowStays
<1>5. OffsetsNoted'
  BY NotedStays DEF RowsOK, OffsetsNoted
<1>6. QED
  BY <1>1, <1>2, <1>3, <1>4, <1>5 DEF RowsOK

\* A session that is opened was not given up.
LEMMA OpenStays ==
  ASSUME BaseInv, NEW s \in Session, NEW k \in Nat \ {0}, NEW first, NEW id, Opened(s, k, first, id)
  PROVE  \A t \in Session : cur[t] # NoState => cur'[t] # NoState
<1> DEFINE n == Len(Clean(IF k <= Len(file[s]) THEN file[s][k] ELSE <<>>))
           o == [idx |-> k, row |-> n, next |-> first + n, first |-> first, id |-> id]
<1>0. cur' = [cur EXCEPT ![s] = o] /\ o.idx = k
  BY DEF Opened
<1> HIDE DEF o
<1>1. PICK st : cur' = [cur EXCEPT ![s] = st] /\ st.idx = k
  BY <1>0
<1>2. st # NoState
  BY <1>1 DEF NoState
<1>3. QED
  BY <1>1, <1>2 DEF BaseInv, StoreTypes, OpenOK

LEMMA QuietRows ==
  ASSUME BaseInv, RowsOK, Moved, \A s \in Session : cur[s] # NoState => cur'[s] # NoState,
         UNCHANGED <<events, segments, lastOff>>,
         \A f \in Flusher : rows'[f] \subseteq rows[f] /\ Elems(metas'[f]) \subseteq Elems(metas[f])
  PROVE  RowsOK'
<1>1. /\ \A q \in events' : q \in events \/ OnDisk(q)'
      /\ \A r \in segments' : r.parent = 0 => r \in segments \/ RowOnDisk(r)'
      /\ \A s \in Session : lastOff'[s] = lastOff[s] \/ Noted(s)'
  OBVIOUS
<1>2. /\ \A f \in Flusher : \A q \in rows'[f] : q \in rows[f] \/ (OnDisk(q)' /\ cur'[q.sess] # NoState)
      /\ \A f \in Flusher : \A m \in Elems(metas'[f]) :
           m \in Elems(metas[f]) \/ (RowOnDisk(m)' /\ cur'[m.sess] # NoState)
  OBVIOUS
<1>3. QED
  BY <1>1, <1>2, RowsStep

LEMMA GivesUpRows ==
  ASSUME BaseInv, RowsOK, Moved, NEW f \in Flusher, FlushFails(f)
  PROVE  RowsOK'
<1>1. /\ UNCHANGED <<cur, events, segments, lastOff>>
      /\ metas' = [metas EXCEPT ![f] = <<>>] /\ rows' = [rows EXCEPT ![f] = {}]
  BY DEF FlushFails, indexVars
<1>2. \A g \in Flusher : rows'[g] \subseteq rows[g] /\ Elems(metas'[g]) \subseteq Elems(metas[g])
  BY <1>1 DEF BaseInv, StoreTypes, FlushOK, Elems
<1>3. QED
  BY <1>1, <1>2, QuietRows

LEMMA OpenGroupRows ==
  ASSUME BaseInv, RowsOK, Moved, NEW f \in Flusher, NEW s \in Session, OpenGroup(f, s)
  PROVE  RowsOK'
<1>1. CASE FlushFails(f)
  BY <1>1, GivesUpRows
<1>2. CASE /\ UNCHANGED <<lastOff, metas, rows, segments, events>>
           /\ cur' = cur \/ Opened(s, LastSegment(s), StartSeq(s), SegmentId(s, LastSegment(s)))
  <2>1. LastSegment(s) \in Nat \ {0}
    <3>1. LastSegment(s) \in 1 .. Len(file[s]) + 1 /\ Len(file[s]) \in Nat
      BY LastIs, FileType DEF BaseInv, StoreTypes
    <3>2. QED
      BY <3>1
  <2>2. \A t \in Session : cur[t] # NoState => cur'[t] # NoState
    BY <1>2, <2>1, OpenStays
  <2>3. QED
    BY <1>2, <2>2, QuietRows
<1>3. QED
  BY <1>1, <1>2 DEF OpenGroup

\* The row that is written for a segment.
LEMMA MetaIs ==
  ASSUME NEW s, NEW st \in CurType, st.next = st.first + st.row, st.row # 0
  PROVE  /\ Meta(s, st).sess = s /\ Meta(s, st).idx = st.idx /\ Meta(s, st).start = st.first
         /\ Meta(s, st).start <= Meta(s, st).end /\ Meta(s, st).end - Meta(s, st).start + 1 = st.row
<1> DEFINE a == st.first
           b == st.row
           e == st.next - 1
<1>1. a \in Nat /\ b \in Nat /\ b # 0 /\ e = a + b - 1
  BY RowsPositive DEF CurType
<1>2. Meta(s, st).sess = s /\ Meta(s, st).idx = st.idx /\ Meta(s, st).start = a /\ Meta(s, st).end = e
  BY DEF Meta
<1> HIDE DEF a, b, e
<1>3. a <= e /\ e - a + 1 = b
  BY <1>1
<1>4. QED
  BY <1>2, <1>3 DEF a, b

LEMMA RollRows ==
  ASSUME BaseInv, FileInv, RowsOK, Moved, NEW f \in Flusher, Roll(f)
  PROVE  RowsOK'
<1>1. CASE FlushFails(f)
  BY <1>1, GivesUpRows
<1>2. CASE /\ Opened(sess[f], cur[sess[f]].idx + 1, cur[sess[f]].next, nextId)
           /\ metas' = [metas EXCEPT ![f] = Append(@, Meta(sess[f], cur[sess[f]]))]
           /\ UNCHANGED <<fpc, lastOff, rows, segments, events>>
  <2>0. fpc[f] = "write" /\ cur[sess[f]].row >= MaxRows
    BY DEF Roll
  <2> DEFINE s == sess[f]
             st == cur[s]
             m == Meta(s, st)
  <2>1. /\ s \in Session /\ st # NoState /\ st \in CurType /\ st.idx \in DOMAIN file[s]
        /\ st.next = st.first + st.row /\ \A g \in Flusher : g # f => fpc[g] \notin {"write", "sync"}
    BY <2>0, OneWriter DEF BaseInv
  <2>2. dirty[s] = 0
    BY <2>0, <2>1, NoSync
  <2>3. st.row \in Nat /\ st.row # 0
    BY <2>0, <2>1, RowsPositive DEF CurType
  <2>4. st.first = From(s, st.idx) /\ st.row + dirty[s] = Len(file[s][st.idx]) /\ Sound(file[s][st.idx])
    BY <2>1 DEF FileInv, Fits, StateFits
  <2>5. /\ file[s][st.idx] \in Seq(Item(Len(log))) /\ DOMAIN file[s][st.idx] = 1 .. Len(file[s][st.idx])
        /\ st.idx \in Nat \ {0}
    BY <2>1, FileType DEF BaseInv, StoreTypes
  <2>6. Kept(s, st.idx, st.row)
    <3>1. st.row = Len(file[s][st.idx]) /\ st.row <= Len(file[s][st.idx]) - dirty[s]
      BY <2>2, <2>3, <2>4
    <3>2. st.row \in DOMAIN file[s][st.idx]
      BY <2>3, <2>5, <3>1
    <3>3. QED
      BY <2>1, <2>4, <3>1, <3>2 DEF Kept, Sound
  <2>7. /\ m.sess = s /\ m.idx = st.idx /\ m.start = st.first /\ m.start <= m.end /\ m.end - m.start + 1 = st.row
    <3> HIDE DEF s, st
    <3> QED
      BY <2>1, <2>3, MetaIs
  <2>8. RowOnDisk(m)
    <3> HIDE DEF m
    <3> QED
      BY <2>4, <2>6, <2>7 DEF RowOnDisk
  <2>9. PICK M : M = m
    OBVIOUS
  <2>10. \A t \in Session : cur[t] # NoState => cur'[t] # NoState
    <3>1. st.idx + 1 \in Nat \ {0}
      BY <2>5
    <3>2. QED
      BY <1>2, <2>1, <3>1, OpenStays
  <2>11. RowOnDisk(M)' /\ cur'[M.sess] # NoState
    <3>1. RowOnDisk(M) /\ M.sess = s
      BY <2>7, <2>8, <2>9
    <3>2. RowOnDisk(M)'
      BY <2>1, <3>1, RowStays
    <3>3. QED
      BY <2>1, <2>10, <3>1, <3>2
  <2>12. \A g \in Flusher : \A x \in Elems(metas'[g]) : x \in Elems(metas[g]) \/ x = M
    <3>1. metas[f] \in Seq(SegmentRow) /\ metas \in [Flusher -> Seq(SegmentRow)]
      BY DEF BaseInv, StoreTypes, FlushOK
    <3>2. metas' = [metas EXCEPT ![f] = Append(metas[f], M)]
      BY <1>2, <2>9
    <3> HIDE DEF m, s, st
    <3>3. QED
      BY <3>1, <3>2 DEF Elems
  <2>13. QED
    BY <1>2, <2>10, <2>11, <2>12, RowsStep
<1>3. QED
  BY <1>1, <1>2 DEF Roll

LEMMA SyncRows ==
  ASSUME BaseInv, BaseInv', FileInv, FileInv', RowsOK, Moved, NEW f \in Flusher, Sync(f)
  PROVE  RowsOK'
<1>0. sess[f] \in Session /\ fpc[f] = "sync"
  BY OneWriter DEF Sync, BaseInv
<1> PICK s \in Session : s = sess[f]
  BY <1>0
<1> PICK k : k = cur[s].idx
  OBVIOUS
<1> DEFINE st == cur[s]
           n == Take(f)
           new == Advanced(st, n)
           q == Records(f, n)
           R == {[sess |-> s, off |-> q[i].seq, seg |-> cur[s].id, ev |-> q[i].ev] : i \in DOMAIN q}
           m == Meta(s, new)
<1>1. /\ st.row < MaxRows /\ cur' = [cur EXCEPT ![s] = new] /\ dirty' = [dirty EXCEPT ![s] = 0]
      /\ UNCHANGED <<sess, file, base, events, segments, lastOff>> /\ rows' = [rows EXCEPT ![f] = rows[f] \cup R]
      /\ metas' = metas \/ metas' = [metas EXCEPT ![f] = Append(metas[f], m)]
  BY SyncIs DEF BaseInv, ghostVars, indexVars
<1>2. /\ st # NoState /\ k \in DOMAIN file[s] /\ st \in CurType /\ st.next = st.first + st.row
      /\ k \in Nat \ {0} /\ file[s][k] \in Seq(Item(Len(log))) /\ DOMAIN file[s][k] = 1 .. Len(file[s][k])
  <2>1. st # NoState /\ k \in DOMAIN file[s] /\ st \in CurType /\ st.next = st.first + st.row
    BY <1>0, OneWriter DEF BaseInv
  <2>2. QED
    BY <2>1, FileType DEF BaseInv, StoreTypes
<1>3. n \in Nat \ {0} /\ st.row + n <= MaxRows /\ st.row \in Nat
  <2>1. n \in Nat \ {0} /\ st.row + n <= MaxRows
    BY <1>0, <1>1, TakeIs DEF BaseInv
  <2>2. st.row \in Nat
    BY <1>2, RowsPositive DEF CurType
  <2>3. QED
    BY <2>1, <2>2
<1>4. new.idx = k /\ new.first = st.first /\ new.row = st.row + n /\ new # NoState /\ new \in CurType
      /\ new.next = new.first + new.row
  <2> HIDE DEF st, n
  <2> QED
    BY <1>2, <1>3, AdvancedIs DEF st
<1>5. /\ cur'[s] = new /\ dirty'[s] = 0 /\ \A t \in Session : cur[t] # NoState => cur'[t] # NoState
  BY <1>1, <1>4 DEF BaseInv, StoreTypes, OpenOK
<1> HIDE DEF new
<1>6. /\ new.first = From(s, k)' /\ st.row + n = Len(file[s][k]) /\ Sound(file[s][k])
  <2>1. StateFits(s)'
    BY DEF FileInv, Fits
  <2>2. cur'[s].first = From(s, k)' /\ cur'[s].row + dirty'[s] = Len(file'[s][k]) /\ Sound(file'[s][k])
    <3>1. /\ cur'[s].first = From(s, cur[s].idx)' /\ cur'[s].row + dirty'[s] = Len(file'[s][cur'[s].idx])
          /\ Sound(file'[s][cur'[s].idx])
      BY <1>4, <1>5, <2>1 DEF StateFits, Sound
    <3>2. cur'[s].idx = k
      BY <1>4, <1>5
    <3>3. QED
      BY <3>1, <3>2 DEF From
  <2>3. file'[s] = file[s] /\ new.row + 0 = new.row
    BY <1>1, <1>3, <1>4
  <2>4. QED
    BY <1>4, <1>5, <2>2, <2>3
<1>7. ASSUME NEW i \in 1 .. Len(file[s][k]) PROVE Kept(s, k, i)'
  <2>1. i \in DOMAIN file[s][k] /\ i <= Len(file[s][k]) - 0
    <3>1. Len(file[s][k]) \in Nat
      BY <1>2, LenProperties
    <3>2. QED
      BY <1>2, <3>1
  <2>2. file[s][k][i].ev # 0
    BY <1>6, <2>1 DEF Sound
  <2>3. file'[s] = file[s]
    BY <1>1
  <2>4. QED
    BY <1>2, <1>5, <2>1, <2>2, <2>3 DEF Kept
<1>8. \A r \in R : OnDisk(r)' /\ cur'[r.sess] # NoState
  <2> SUFFICES ASSUME NEW i \in DOMAIN q, NEW r, r = [sess |-> s, off |-> q[i].seq, seg |-> cur[s].id, ev |-> q[i].ev]
               PROVE  OnDisk(r)' /\ cur'[r.sess] # NoState
    OBVIOUS
  <2>1. n \in 0 .. Take(f) /\ fpc[f] \in {"write", "sync"} /\ cur[sess[f]].row < MaxRows
    BY <1>0, <1>1, <1>3
  <2>2. DOMAIN q = 1 .. n
    BY <2>1, RecordsIs DEF BaseInv
  <2>3. file[s][k][st.row + i] = q[i]
    <3>1. \A x \in 1 .. n : file[sess[f]][cur[sess[f]].idx][cur[sess[f]].row + x] = q[x]
      BY <1>0, Zenon DEF FileInv, SyncOK, Written
    <3>2. QED
      BY <2>2, <3>1
  <2> PICK j : j = st.row + i
    OBVIOUS
  <2>4. j \in 1 .. Len(file[s][k]) /\ j \in Nat /\ k \in Nat
    BY <1>2, <1>3, <1>6, <2>2
  <2>5. Kept(s, k, j)'
    BY <1>7, <2>4
  <2>6. r.sess = s /\ r.off = q[i].seq /\ r.ev = q[i].ev
    OBVIOUS
  <2>7. file'[s][k][j] = q[i]
    BY <1>1, <2>3
  <2> HIDE DEF q
  <2>8. OnDisk(r)'
    BY <2>4, <2>5, <2>6, <2>7 DEF OnDisk
  <2>9. QED
    BY <1>4, <1>5, <2>6, <2>8
<1>9. PICK M : M = m
  OBVIOUS
<1>10. RowOnDisk(M)' /\ cur'[M.sess] # NoState
  <2>1. new.row # 0 /\ new.row \in Nat
    BY <1>3, <1>4
  <2>2. /\ m.sess = s /\ m.idx = k /\ m.start = new.first /\ m.start <= m.end /\ m.end - m.start + 1 = new.row
    BY <1>4, <2>1, MetaIs
  <2> HIDE DEF m
  <2>3. new.row \in 1 .. Len(file[s][k])
    BY <1>3, <1>4, <1>6
  <2> PICK j : j = new.row
    OBVIOUS
  <2>4. Kept(s, k, j)'
    BY <1>7, <2>3
  <2>5. M.start = From(s, k)'
    BY <1>6, <1>9, <2>2
  <2>6. M.sess = s /\ M.idx = k /\ M.start <= M.end /\ M.end - M.start + 1 = j
    BY <1>9, <2>2
  <2>7. RowOnDisk(M)'
    BY <2>4, <2>5, <2>6 DEF RowOnDisk
  <2>8. QED
    BY <1>4, <1>5, <2>6, <2>7
<1> HIDE DEF m, R
<1>11. /\ \A g \in Flusher : \A r \in rows'[g] : r \in rows[g] \/ r \in R
       /\ \A g \in Flusher : \A x \in Elems(metas'[g]) : x \in Elems(metas[g]) \/ x = M
  <2>1. metas[f] \in Seq(SegmentRow) /\ metas \in [Flusher -> Seq(SegmentRow)] /\ DOMAIN rows = Flusher
    BY DEF BaseInv, StoreTypes, FlushOK
  <2>2. \A g \in Flusher : \A r \in rows'[g] : r \in rows[g] \/ r \in R
    BY <1>1, <2>1
  <2>3. CASE metas' = metas
    BY <2>2, <2>3
  <2>4. CASE metas' = [metas EXCEPT ![f] = Append(metas[f], M)]
    BY <2>1, <2>2, <2>4 DEF Elems
  <2>5. QED
    BY <1>1, <1>9, <2>3, <2>4
<1>12. /\ \A r \in events' : r \in events \/ OnDisk(r)'
       /\ \A r \in segments' : r.parent = 0 => r \in segments \/ RowOnDisk(r)'
       /\ \A t \in Session : lastOff'[t] = lastOff[t] \/ Noted(t)'
  BY <1>1
<1>13. QED
  BY <1>5, <1>8, <1>10, <1>11, <1>12, RowsStep

\* The row of a segment that is inserted or updated.
LEMMA InsertSegmentRows ==
  ASSUME BaseInv, RowsOK, Moved, NEW f \in Flusher, InsertSegment(f)
  PROVE  RowsOK'
<1>1. PICK m \in SegmentRow :
        /\ m = metas[f][1] /\ 1 \in DOMAIN metas[f]
        /\ segments' = {r \in segments : r.id # m.id} \cup
             (IF \E r \in segments : r.id = m.id
              THEN {[r EXCEPT !.end = m.end] : r \in {r \in segments : r.id = m.id}} ELSE {m})
        /\ metas' = [metas EXCEPT ![f] = Tail(metas[f])]
        /\ \A i \in DOMAIN Tail(metas[f]) : i + 1 \in DOMAIN metas[f] /\ Tail(metas[f])[i] = metas[f][i + 1]
        /\ UNCHANGED <<memVars, rows, events>>
  BY InsertSegmentIs DEF BaseInv
<1>2. m \in Elems(metas[f]) /\ m.sess \in Session /\ m.parent = 0
  BY <1>1 DEF Elems, SegmentRow, BaseInv, IdsOK, MetasOwn
<1>3. RowOnDisk(m)'
  BY <1>2, RowStays DEF RowsOK, MetasOnDisk
<1>4. \A g \in Flusher : \A x \in Elems(metas'[g]) : x \in Elems(metas[g])
  <2>1. DOMAIN metas = Flusher
    BY DEF BaseInv, StoreTypes, FlushOK
  <2>2. Elems(Tail(metas[f])) \subseteq Elems(metas[f])
    BY <1>1 DEF Elems
  <2>3. QED
    BY <1>1, <2>1, <2>2
<1>5. ASSUME NEW r \in segments, r.id = m.id, NEW x, x = [r EXCEPT !.end = m.end] PROVE RowOnDisk(x)'
  <2>1. r \in SegmentRow
    BY <1>5 DEF BaseInv, StoreTypes, IndexOK
  <2>2. Stands(m.id, r.sess, r.idx, r.parent)
    BY <1>5 DEF Stands, InIndex
  <2>3. Stands(m.id, m.sess, m.idx, m.parent)
    BY <1>1 DEF Stands, InMetas
  <2>4. r.sess = m.sess /\ r.idx = m.idx /\ r.parent = 0
    <3>1. \A i, s, k, p, t, l, o : Stands(i, s, k, p) /\ Stands(i, t, l, o) => s = t /\ k = l /\ p = o
      BY DEF BaseInv, IdsOK, IdsUnique
    <3>2. QED
      BY <1>2, <2>2, <2>3, <3>1, Zenon, SMTT(30)
  <2>5. r.start = From(m.sess, m.idx) /\ m.start = From(m.sess, m.idx)
    BY <1>2, <2>4 DEF RowsOK, SegmentsOnDisk, MetasOnDisk, RowOnDisk
  <2>6. x.sess = m.sess /\ x.idx = m.idx /\ x.start = m.start /\ x.end = m.end
    BY <1>5, <2>1, <2>4, <2>5 DEF SegmentRow
  <2>7. QED
    BY <1>3, <2>6 DEF RowOnDisk
<1>6. \A r \in segments' : r.parent = 0 => r \in segments \/ RowOnDisk(r)'
  BY <1>1, <1>3, <1>5
<1>7. UNCHANGED <<cur, lastOff>>
  BY <1>1 DEF memVars
<1>8. QED
  BY <1>1, <1>4, <1>6, <1>7, RowsStep

LEMMA InsertEventsRows ==
  ASSUME BaseInv, RowsOK, Moved, NEW f \in Flusher, InsertEvents(f)
  PROVE  RowsOK'
<1>1. CASE FlushFails(f)
  BY <1>1, GivesUpRows
<1>2. CASE events' = events \cup rows[f] /\ UNCHANGED <<memVars, metas, rows, segments>>
  <2>1. UNCHANGED <<cur, lastOff>>
    BY <1>2 DEF memVars
  <2>2. ASSUME NEW q \in rows[f] PROVE OnDisk(q)'
    <3>1. OnDisk(q) /\ q.sess \in Session
      BY DEF RowsOK, RowsOnDisk, BaseInv, StoreTypes, FlushOK, RowOf
    <3>2. QED
      BY <3>1, OnDiskStays
  <2>3. QED
    BY <1>2, <2>1, <2>2, RowsStep
<1>3. QED
  BY <1>1, <1>2 DEF InsertEvents

LEMMA ConfirmRows ==
  ASSUME BaseInv, RowsOK, Moved, NEW f \in Flusher, Confirm(f)
  PROVE  RowsOK'
<1> DEFINE own(s) == {r \in rows[f] : r.sess = s}
<1>1. /\ lastOff' = [s \in Session |-> IF own(s) = {} THEN lastOff[s] ELSE Max({r.off : r \in own(s)}) + 1]
      /\ rows' = [rows EXCEPT ![f] = {}]
      /\ UNCHANGED <<cur, metas, events, segments>>
  BY DEF Confirm, indexVars
<1>2. ASSUME NEW s \in Session PROVE lastOff'[s] = lastOff[s] \/ Noted(s)'
  <2>1. CASE own(s) = {}
    BY <1>1, <2>1
  <2>2. CASE own(s) # {}
    <3>1. PICK r \in rows[f] : r.sess = s /\ r.off = Max({q.off : q \in own(s)}) /\ r.off \in Nat
      BY <2>2, LastOffset DEF BaseInv
    <3>2. lastOff'[s] = r.off + 1
      BY <1>1, <2>2, <3>1
    <3>3. OnDisk(r)
      BY DEF RowsOK, RowsOnDisk
    <3>4. OnDisk(r)'
      BY <3>1, <3>3, OnDiskStays
    <3>5. QED
      BY <3>1, <3>2, <3>4 DEF Noted, OnDisk
  <2>3. QED
    BY <2>1, <2>2
<1>3. \A g \in Flusher : \A q \in rows'[g] : q \in rows[g]
  BY <1>1 DEF BaseInv, StoreTypes, FlushOK
<1>4. QED
  BY <1>1, <1>2, <1>3, RowsStep

LEMMA ForkRows ==
  ASSUME BaseInv, RowsOK, Moved, NEW p \in Session, NEW c \in Session, NEW n \in Nat, Fork(p, n, c)
  PROVE  RowsOK'
<1> DEFINE st == State(1, 0, n, nextId + Cardinality(Old(p, n)))
<1>1. /\ segments' = segments \cup Copy(p, n, c) /\ cur' = [cur EXCEPT ![c] = st] /\ cur[c] = NoState
      /\ UNCHANGED <<lastOff, flushVars, events>>
  BY ForkIs
<1>2. \A s \in Session : cur[s] # NoState => cur'[s] # NoState
  <2> HIDE DEF st
  <2> QED
    BY <1>1 DEF BaseInv, StoreTypes, OpenOK
<1>3. ASSUME NEW r \in Copy(p, n, c) PROVE r.parent # 0
  <2>1. PICK o \in Old(p, n) : r = CopyOf(p, n, c, o)
    BY <1>3 DEF Copy
  <2>2. r.parent = o.id
    BY <2>1 DEF CopyOf
  <2>3. o \in segments /\ Stands(o.id, o.sess, o.idx, o.parent)
    BY DEF Old, Stands, InIndex
  <2>4. 0 < o.id
    BY <2>3 DEF BaseInv, IdsOK, IdsBelow
  <2>5. o.id \in Nat
    BY <2>3 DEF BaseInv, StoreTypes, IndexOK, SegmentRow
  <2>6. QED
    BY <2>2, <2>4, <2>5
<1>4. UNCHANGED <<rows, metas>>
  BY <1>1 DEF flushVars
<1>5. \A r \in segments' : r.parent = 0 => r \in segments \/ RowOnDisk(r)'
  BY <1>1, <1>3
<1>6. QED
  BY <1>1, <1>2, <1>4, <1>5, RowsStep

\* What is read of the files of a session that is not open.
LEMMA CleanKept ==
  ASSUME BaseInv, NEW s \in Session, Fits(s), cur[s] = NoState, NEW k \in DOMAIN file[s],
         NEW i \in DOMAIN Clean(file[s][k])
  PROVE  /\ Kept(s, k, i) /\ Clean(file[s][k])[i] = file[s][k][i] /\ k \in Nat /\ i \in Nat
         /\ file[s][k][i].seq = From(s, k) + i - 1
<1> DEFINE q == file[s][k]
           c == Clean(q)
           T == Item(Len(log))
<1>1. q \in Seq(T) /\ Len(q) \in Nat /\ DOMAIN q = 1 .. Len(q) /\ k \in Nat \ {0}
  BY FileType DEF BaseInv, StoreTypes
<1>2. i \in DOMAIN c /\ Places(s) /\ dirty[s] = 0
  BY DEF Fits, BaseInv, StoreTypes, OpenOK
<1>3. /\ Len(c) \in Nat /\ Len(c) <= Len(q) /\ DOMAIN c = 1 .. Len(c)
      /\ \A j \in 1 .. Len(c) : c[j] = q[j] /\ q[j].ev # 0
  <2> HIDE DEF q, T
  <2> QED
    BY <1>1, CleanIs
<1> HIDE DEF c
<1>4. i \in DOMAIN q /\ i \in Nat /\ c[i] = q[i] /\ q[i].ev # 0 /\ i <= Len(q) - 0
  BY <1>1, <1>2, <1>3
<1>5. q[i].seq = From(s, k) + i - 1
  BY <1>2, <1>4 DEF Places
<1>6. Kept(s, k, i)
  BY <1>2, <1>4 DEF Kept
<1>7. QED
  BY <1>1, <1>4, <1>5, <1>6 DEF c

LEMMA RebuildRows ==
  ASSUME BaseInv, FileInv, RowsOK, Moved, NEW s \in Session, Rebuild(s)
  PROVE  RowsOK'
<1> DEFINE found == {q \in UNION {NewEvents(s, k) : k \in Filled(s)} :
                       \A o \in events : o.sess = s => o.off # q.off}
<1>1. /\ cur[s] = NoState /\ UNCHANGED <<cur, lastOff, metas, rows>>
      /\ segments' = {r \in segments : \A k \in Filled(s) : r.id # NewId(s, k)}
                       \cup {NewRow(s, k) : k \in Filled(s)}
      /\ events' = events \cup found
  BY RebuildIs DEF memVars, flushVars
<1>2. Fits(s)
  BY DEF FileInv
<1>3. ASSUME NEW q \in found PROVE OnDisk(q)'
  <2>1. PICK k \in Filled(s) : q \in NewEvents(s, k)
    BY <1>3
  <2>2. PICK x \in RecordSet(Clean(file[s][k])) : q = [sess |-> s, off |-> x.seq, seg |-> NewId(s, k), ev |-> x.ev]
    BY <2>1 DEF NewEvents
  <2>3. PICK i \in DOMAIN Clean(file[s][k]) : x = Clean(file[s][k])[i]
    BY DEF RecordSet
  <2>4. k \in DOMAIN file[s]
    BY DEF Filled
  <2>5. Kept(s, k, i) /\ x = file[s][k][i] /\ k \in Nat /\ i \in Nat
    BY <1>1, <1>2, <2>3, <2>4, CleanKept
  <2>6. q.sess = s /\ q.off = x.seq /\ q.ev = x.ev
    BY <2>2
  <2>7. OnDisk(q)
    BY <2>5, <2>6 DEF OnDisk
  <2>8. QED
    BY <2>6, <2>7, OnDiskStays
<1>4. ASSUME NEW k \in Filled(s) PROVE RowOnDisk(NewRow(s, k)) /\ NewRow(s, k).sess = s
  <2> DEFINE c == Clean(file[s][k])
             n == Len(c)
             r == NewRow(s, k)
  <2>1. k \in DOMAIN file[s] /\ k \in Nat \ {0} /\ n \in Nat /\ n > 0 /\ DOMAIN c = 1 .. n
    <3>1. k \in DOMAIN file[s] /\ Len(c) > 0
      BY FilledIs DEF BaseInv, StoreTypes, Filled
    <3>2. file[s][k] \in Seq(Item(Len(log))) /\ k \in Nat \ {0}
      BY <3>1, FileType DEF BaseInv, StoreTypes
    <3>3. Len(c) \in Nat /\ DOMAIN c = 1 .. Len(c)
      BY <3>2, CleanIs
    <3>4. QED
      BY <3>1, <3>2, <3>3
  <2>2. 1 \in DOMAIN c /\ n \in DOMAIN c /\ From(s, k) \in Nat
    BY <2>1, FromNext
  <2>3. c[1].seq = From(s, k) + 1 - 1 /\ c[n].seq = From(s, k) + n - 1 /\ Kept(s, k, n)
    <3>1. \A i \in DOMAIN Clean(file[s][k]) :
            Kept(s, k, i) /\ Clean(file[s][k])[i].seq = From(s, k) + i - 1
      BY <1>1, <1>2, <2>1, CleanKept
    <3>2. QED
      BY <2>2, <3>1, Zenon
  <2>4. r.sess = s /\ r.idx = k /\ r.start = NewStart(s, k) /\ r.end = c[n].seq
    BY DEF NewRow
  <2>5. NewStart(s, k) = From(s, k)
    <3>1. CASE HasRow(s, k)
      <4>1. RowFor(s, k) \in segments /\ RowFor(s, k).sess = s /\ RowFor(s, k).parent = 0 /\ RowFor(s, k).idx = k
        BY <3>1, RowForIs DEF BaseInv, StoreTypes
      <4>2. RowOnDisk(RowFor(s, k))
        BY <4>1 DEF RowsOK, SegmentsOnDisk
      <4>3. RowFor(s, k).start = From(s, k)
        BY <4>1, <4>2 DEF RowOnDisk
      <4>4. QED
        BY <3>1, <4>3 DEF NewStart
    <3>2. CASE ~HasRow(s, k)
      <4>1. NewStart(s, k) = c[1].seq
        BY <3>2 DEF NewStart
      <4> HIDE DEF c
      <4>2. QED
        BY <2>2, <2>3, <4>1
    <3>3. QED
      BY <3>1, <3>2
  <2> DEFINE F == From(s, k)
  <2> HIDE DEF c, n, r, F
  <2>6. F \in Nat /\ n \in Nat /\ n > 0 /\ r.start = F /\ r.end = F + n - 1
    BY <2>1, <2>2, <2>3, <2>4, <2>5 DEF F
  <2>7. r.start <= r.end /\ r.end - r.start + 1 = n
    BY <2>6
  <2>8. QED
    BY <2>3, <2>4, <2>6, <2>7 DEF RowOnDisk, F, r
<1>5. ASSUME NEW r \in segments' PROVE r \in segments \/ RowOnDisk(r)'
  <2>1. CASE r \in segments
    BY <2>1
  <2>2. ASSUME NEW k \in Filled(s), r = NewRow(s, k) PROVE RowOnDisk(r)'
    <3>1. RowOnDisk(r) /\ r.sess = s
      BY <1>4, <2>2
    <3>2. QED
      BY <3>1, RowStays
  <2>3. QED
    BY <1>1, <1>5, <2>1, <2>2
<1> HIDE DEF found
<1>6. /\ \A q \in events' : q \in events \/ OnDisk(q)'
      /\ \A r \in segments' : r.parent = 0 => r \in segments \/ RowOnDisk(r)'
  BY <1>1, <1>3, <1>5
<1>7. /\ \A t \in Session : cur[t] # NoState => cur'[t] # NoState
      /\ \A t \in Session : lastOff'[t] = lastOff[t] \/ Noted(t)'
      /\ \A f \in Flusher : \A q \in rows'[f] : q \in rows[f] \/ (OnDisk(q)' /\ cur'[q.sess] # NoState)
      /\ \A f \in Flusher : \A m \in Elems(metas'[f]) :
           m \in Elems(metas[f]) \/ (RowOnDisk(m)' /\ cur'[m.sess] # NoState)
  BY <1>1
<1>8. QED
  BY <1>6, <1>7, RowsStep

LEMMA CrashRows ==
  ASSUME BaseInv, RowsOK, Moved, Crash
  PROVE  RowsOK'
<1>1. /\ lastOff' = [s \in Session |-> 0] /\ metas' = [f \in Flusher |-> <<>>] /\ rows' = [f \in Flusher |-> {}]
      /\ UNCHANGED <<segments, events>>
  BY DEF Crash, indexVars
<1>2. EventsOnDisk'
  <2> SUFFICES ASSUME NEW q \in events PROVE OnDisk(q)'
    BY <1>1 DEF EventsOnDisk
  <2>1. OnDisk(q) /\ q.sess \in Session
    BY DEF RowsOK, EventsOnDisk, BaseInv, StoreTypes, IndexOK, RowOf
  <2>2. QED
    BY <2>1, OnDiskStays
<1>3. SegmentsOnDisk'
  <2> SUFFICES ASSUME NEW r \in segments, r.parent = 0 PROVE RowOnDisk(r)'
    BY <1>1 DEF SegmentsOnDisk
  <2>1. RowOnDisk(r) /\ r.sess \in Session
    BY DEF RowsOK, SegmentsOnDisk, BaseInv, StoreTypes, IndexOK, SegmentRow
  <2>2. QED
    BY <2>1, RowStays
<1>4. RowsOnDisk' /\ MetasOnDisk' /\ OffsetsNoted'
  BY <1>1 DEF RowsOnDisk, MetasOnDisk, Elems, OffsetsNoted, Noted
<1>5. QED
  BY <1>2, <1>3, <1>4 DEF RowsOK

LEMMA RowsInit ==
  Init => RowsOK
<1> SUFFICES ASSUME Init PROVE RowsOK
  OBVIOUS
<1>1. EventsOnDisk /\ RowsOnDisk /\ SegmentsOnDisk
  BY DEF Init, EventsOnDisk, RowsOnDisk, SegmentsOnDisk
<1>2. MetasOnDisk /\ OffsetsNoted
  BY DEF Init, MetasOnDisk, Elems, OffsetsNoted, Noted
<1>3. QED
  BY <1>1, <1>2 DEF RowsOK

LEMMA RowsNext ==
  ASSUME BaseInv, BaseInv', FileInv, FileInv', RowsOK, ~IoErrors, [Next]_vars
  PROVE  RowsOK'
<1>0. Moved
  BY MovedStep
<1> USE DEF memVars, indexVars
<1>1. ASSUME NEW f \in Flusher, NEW s \in Session, AppendEvent(f, s) PROVE RowsOK'
  <2>1. UNCHANGED <<cur, lastOff, metas, rows, segments, events>>
    BY <1>1 DEF AppendEvent
  <2>2. QED
    BY <1>0, <2>1, QuietRows
<1>2. ASSUME NEW f \in Flusher, TakeBatch(f) \/ FlushNothing(f) \/ Write(f) PROVE RowsOK'
  <2>1. UNCHANGED <<cur, lastOff, metas, rows, segments, events>>
    BY <1>2 DEF TakeBatch, FlushNothing, Write
  <2>2. QED
    BY <1>0, <2>1, QuietRows
<1>3. ASSUME NEW f \in Flusher, NEW s \in Session, OpenGroup(f, s) PROVE RowsOK'
  BY <1>0, <1>3, OpenGroupRows
<1>4. ASSUME NEW f \in Flusher, Roll(f) PROVE RowsOK'
  BY <1>0, <1>4, RollRows
<1>5. ASSUME NEW f \in Flusher, Sync(f) PROVE RowsOK'
  BY <1>0, <1>5, SyncRows
<1>6. ASSUME NEW f \in Flusher, InsertSegment(f) PROVE RowsOK'
  BY <1>0, <1>6, InsertSegmentRows
<1>7. ASSUME NEW f \in Flusher, InsertEvents(f) PROVE RowsOK'
  BY <1>0, <1>7, InsertEventsRows
<1>8. ASSUME NEW f \in Flusher, Confirm(f) PROVE RowsOK'
  BY <1>0, <1>8, ConfirmRows
<1>9. ASSUME NEW f \in Flusher, Refuse(f) \/ WriteFails(f) \/ SyncFails(f) \/ IndexFails(f) PROVE RowsOK'
  <2>1. FlushFails(f)
    BY <1>9 DEF Refuse, WriteFails, SyncFails, IndexFails
  <2>2. QED
    BY <1>0, <2>1, GivesUpRows
<1>10. ASSUME NEW p \in Session, NEW c \in Session, NEW n \in 0 .. MaxEvents, Fork(p, n, c) PROVE RowsOK'
  <2>1. n \in Nat
    BY SessionStoreAssumption
  <2>2. QED
    BY <1>0, <1>10, <2>1, ForkRows
<1>11. ASSUME NEW s \in Session, Rebuild(s) PROVE RowsOK'
  BY <1>0, <1>11, RebuildRows
<1>12. ASSUME Crash PROVE RowsOK'
  BY <1>0, <1>12, CrashRows
<1>13. ASSUME UNCHANGED vars PROVE RowsOK'
  <2>1. UNCHANGED <<cur, lastOff, metas, rows, segments, events>>
    BY <1>13 DEF vars, flushVars
  <2>2. QED
    BY <1>0, <2>1, QuietRows
<1>14. QED
  BY <1>1, <1>2, <1>3, <1>4, <1>5, <1>6, <1>7, <1>8, <1>9, <1>10, <1>11, <1>12, <1>13 DEF Next, FlushStep

\* A record on disk for good is among those that survive a crash.
LEMMA KeptIsDurable ==
  ASSUME BaseInv, FileInv, NEW s \in Session, NEW k, NEW i, Kept(s, k, i)
  PROVE  file[s][k][i] \in Durable(s)
<1> DEFINE F == file[s]
           c == cur[s].idx
           d == dirty[s]
           T == Item(Len(log))
<1>1. /\ F \in Seq(Seq(T)) /\ d \in Nat /\ (c \in DOMAIN F => d <= Len(F[c]))
      /\ \A l \in DOMAIN F : \A j \in DOMAIN F[l] : F[l][j].ev = 0 => j = Len(F[l])
  <2>1. F \in Seq(Seq(T)) /\ d \in Nat /\ (d > 0 => d <= Len(F[c]))
    BY DEF BaseInv, StoreTypes, FilesOK, OpenOK
  <2>2. c \in DOMAIN F => Len(F[c]) \in Nat
    BY FileType DEF BaseInv, StoreTypes
  <2>3. Places(s)
    BY DEF FileInv, Fits
  <2>4. QED
    BY <2>1, <2>2, <2>3 DEF Places
<1>2. StoredAt(F, c, d, k, i)
  BY DEF StoredAt, Kept
<1>3. Durable(s) = Stored(F, c, d)
  BY DEF Durable, Stored
<1> DEFINE x == F[k][i]
<1> HIDE DEF F, c, d, T
<1>4. x \in Stored(F, c, d)
  BY <1>1, <1>2, StoredIs
<1>5. QED
  BY <1>3, <1>4 DEF F

LEMMA IndexTrue ==
  ASSUME BaseInv, FileInv, RowsOK
  PROVE  IndexIsTrue
<1>1. ASSUME NEW q \in events PROVE \E x \in Durable(q.sess) : x.seq = q.off /\ x.ev = q.ev
  <2>1. q.sess \in Session /\ OnDisk(q)
    BY DEF RowsOK, EventsOnDisk, BaseInv, StoreTypes, IndexOK, RowOf
  <2>2. PICK k, i \in Nat : Kept(q.sess, k, i) /\ file[q.sess][k][i].seq = q.off /\ file[q.sess][k][i].ev = q.ev
    BY <2>1 DEF OnDisk
  <2>3. file[q.sess][k][i] \in Durable(q.sess)
    BY <2>1, <2>2, KeptIsDurable
  <2>4. QED
    BY <2>2, <2>3
<1>2. ASSUME NEW s \in Session, NEW r \in OwnRows(s)
      PROVE  (\E x \in Durable(s) : x.seq = r.end) /\ file[s][r.idx][1].seq = r.start
  <2> DEFINE k == r.idx
             F == file[s]
  <2>1. r \in segments /\ r.sess = s /\ r.parent = 0 /\ r \in SegmentRow
    BY <1>2 DEF OwnRows, BaseInv, StoreTypes, IndexOK
  <2>2. r.start = From(s, k) /\ r.start <= r.end /\ Kept(s, k, r.end - r.start + 1)
    BY <2>1 DEF RowsOK, SegmentsOnDisk, RowOnDisk
  <2>3. r.start \in Nat /\ r.end \in Nat /\ k \in Nat
    BY <2>1 DEF SegmentRow
  <2> DEFINE n == r.end - r.start + 1
  <2>4. k \in DOMAIN F /\ n \in DOMAIN F[k] /\ F[k][n].ev # 0
    BY <2>2 DEF Kept
  <2>5. Places(s)
    BY DEF FileInv, Fits
  <2>6. F[k][n].seq = From(s, k) + n - 1
    BY <2>4, <2>5 DEF Places
  <2>7. /\ F[k] \in Seq(Item(Len(log))) /\ DOMAIN F[k] = 1 .. Len(F[k]) /\ Len(F[k]) \in Nat
    BY <2>4, FileType DEF BaseInv, StoreTypes
  <2>8. F[k][n].seq = r.end
    <3> DEFINE a == r.start
               b == r.end
    <3>1. a \in Nat /\ b \in Nat /\ F[k][n].seq = a + n - 1 /\ n = b - a + 1
      BY <2>2, <2>3, <2>6
    <3> HIDE DEF a, b, n
    <3>2. a + n - 1 = b
      BY <3>1
    <3>3. QED
      BY <3>1, <3>2 DEF b
  <2>9. F[k][n] \in Durable(s)
    BY <2>2, KeptIsDurable
  <2>10. F[k][1].seq = r.start
    <3>1. 1 \in DOMAIN F[k] /\ n \in Nat /\ n <= Len(F[k]) /\ 1 <= n
      BY <2>4, <2>7
    <3>2. F[k][1].ev # 0
      <4> SUFFICES ASSUME F[k][1].ev = 0 PROVE FALSE
        OBVIOUS
      <4>1. 1 = Len(F[k])
        BY <2>4, <2>5, <3>1 DEF Places
      <4>2. n = 1
        <5> DEFINE a == Len(F[k])
        <5>1. n \in Nat /\ n <= a /\ 1 <= n /\ a = 1
          BY <3>1, <4>1
        <5> HIDE DEF n, a
        <5>2. QED
          BY <5>1
      <4>3. QED
        BY <2>4, <4>2
    <3>3. F[k][1].seq = From(s, k) + 1 - 1
      BY <2>4, <2>5, <3>1, <3>2, Zenon DEF Places
    <3>4. QED
      BY <2>2, <2>3, <3>3
  <2>11. QED
    BY <2>8, <2>9, <2>10
<1>3. QED
  BY <1>1, <1>2 DEF IndexIsTrue

\* As long as writes, fsyncs and the index work, the index never says more
\* than the files: whatever flushes overlap, and however a crash, a rebuild or
\* a fork comes in between, an event row has its record on disk and a segment
\* row begins and ends with records of its file.
THEOREM IndexIsTrueProved ==
  ASSUME ~IoErrors
  PROVE  Spec => []IndexIsTrue
<1> DEFINE I == BaseInv /\ FileInv /\ RowsOK
<1>1. Init => I
  BY BaseInit, FileInit, RowsInit
<1>2. I /\ [Next]_vars => I'
  BY BaseStep, FileStep, RowsNext
<1>3. I => IndexIsTrue
  BY IndexTrue
<1> HIDE DEF I
<1>4. QED
  BY <1>1, <1>2, <1>3, PTL DEF Spec

-----------------------------------------------------------------------------
(* No two rows have the same key.                                          *)

\* A sequence number names one place in the files of a session.
LEMMA SeqUnique ==
  ASSUME BaseInv, NEW s \in Session, Fits(s), NEW k \in DOMAIN file[s], NEW i \in DOMAIN file[s][k],
         NEW l \in DOMAIN file[s], NEW j \in DOMAIN file[s][l],
         file[s][k][i].ev # 0, file[s][l][j].ev # 0, file[s][k][i].seq = file[s][l][j].seq
  PROVE  k = l /\ i = j
<1> DEFINE F == file[s]
           T == Item(Len(log))
           M == MaxRows
           b == base[s].from
<1>1. /\ k \in Nat \ {0} /\ l \in Nat \ {0} /\ F[k] \in Seq(T) /\ F[l] \in Seq(T)
      /\ DOMAIN F[k] = 1 .. Len(F[k]) /\ DOMAIN F[l] = 1 .. Len(F[l])
      /\ Len(F[k]) \in Nat /\ Len(F[l]) \in Nat
  BY FileType DEF BaseInv, StoreTypes
<1>2. F[k][i] \in T /\ F[l][j] \in T
  BY <1>1
<1>3. F[k][i].row \in 0 .. (M - 1) /\ F[l][j].row \in 0 .. (M - 1)
  BY <1>2 DEF Item
<1>4. Places(s) /\ b \in Nat
  BY DEF Fits, BaseInv, StoreTypes, GhostOK
<1>5. /\ F[k][i].seq = From(s, k) + i - 1 /\ F[k][i].row = i - 1
      /\ F[l][j].seq = From(s, l) + j - 1 /\ F[l][j].row = j - 1
  BY <1>4 DEF Places
<1>6. i \in Nat /\ j \in Nat /\ i \in 1 .. M /\ j \in 1 .. M
  BY <1>1, <1>3, <1>5, RowsPositive, SMTT(30)
<1> DEFINE x == (k - 1) * M
           y == (l - 1) * M
<1>7. From(s, k) = b + x /\ From(s, l) = b + y
  BY DEF From
<1>8. M \in Nat \ {0}
  BY RowsPositive
<1> HIDE DEF F, b, M
<1>9. /\ x \in Nat /\ y \in Nat
      /\ k < l => x + M <= y
      /\ l < k => y + M <= x
  <2>1. \A m \in Nat : m * M \in Nat
    BY <1>8
  <2>2. ASSUME NEW u \in Nat \ {0}, NEW v \in Nat \ {0}, u < v PROVE (u - 1) * M + M <= (v - 1) * M
    <3>1. v - 1 - u \in Nat /\ u \in Nat
      BY <2>2
    <3>2. (v - 1 - u) * M \in Nat /\ u * M \in Nat
      BY <2>1, <3>1
    <3>3. (v - 1) * M = u * M + (v - 1 - u) * M /\ (u - 1) * M + M = u * M
      BY <1>8, <2>2
    <3>4. QED
      BY <3>2, <3>3
  <2>3. x \in Nat /\ y \in Nat
    <3>1. k - 1 \in Nat /\ l - 1 \in Nat
      BY <1>1
    <3>2. (k - 1) * M \in Nat /\ (l - 1) * M \in Nat
      BY <2>1, <3>1
    <3>3. QED
      BY <3>2
  <2>4. QED
    BY <1>1, <2>2, <2>3
<1> HIDE DEF x, y
<1>10. b + x + i - 1 = b + y + j - 1
  BY <1>5, <1>7 DEF F
<1>11. k = l
  BY <1>1, <1>4, <1>6, <1>8, <1>9, <1>10
<1>12. i = j
  <2>1. x = y
    BY <1>11 DEF x, y
  <2>2. QED
    BY <1>4, <1>6, <1>9, <1>10, <2>1
<1>13. QED
  BY <1>11, <1>12

\* No row and no event appears, and a flush that confirms did so before.
LEMMA QuietKeys ==
  ASSUME KeysOK, events' = events, \A f \in Flusher : rows'[f] = rows[f] \/ rows'[f] = {},
         \A f \in Flusher : rows'[f] # {} => ((fpc'[f] = "confirm") <=> (fpc[f] = "confirm"))
  PROVE  KeysOK'
<1>1. \A f, g \in Flusher : f # g => \A r \in rows'[f], q \in rows'[g] : ~SameKey(r, q)
  BY DEF KeysOK
<1>2. \A f \in Flusher : fpc'[f] # "confirm" => \A r \in rows'[f], q \in events' : ~SameKey(r, q)
  BY DEF KeysOK
<1>3. \A f \in Flusher : fpc'[f] = "confirm" => rows'[f] \subseteq events'
  BY DEF KeysOK
<1>4. QED
  BY <1>1, <1>2, <1>3 DEF KeysOK

LEMMA GivesUpKeys ==
  ASSUME BaseInv, KeysOK, NEW f \in Flusher, FlushFails(f)
  PROVE  KeysOK'
<1>1. events' = events /\ rows' = [rows EXCEPT ![f] = {}] /\ fpc' = [fpc EXCEPT ![f] = "idle"]
  BY DEF FlushFails, indexVars
<1>2. /\ \A g \in Flusher : rows'[g] = rows[g] \/ rows'[g] = {}
      /\ \A g \in Flusher : rows'[g] # {} => ((fpc'[g] = "confirm") <=> (fpc[g] = "confirm"))
  BY <1>1 DEF BaseInv, StoreTypes, FlushOK
<1>3. QED
  BY <1>1, <1>2, QuietKeys

\* The offsets of a batch are new.
LEMMA SyncKeys ==
  ASSUME BaseInv, FileInv, RowsOK, KeysOK, NEW f \in Flusher, Sync(f)
  PROVE  KeysOK'
<1> DEFINE s == sess[f]
           st == cur[s]
           k == st.idx
           n == Take(f)
           q == Records(f, n)
           R == {[sess |-> s, off |-> q[i].seq, seg |-> cur[s].id, ev |-> q[i].ev] : i \in DOMAIN q}
<1>0. s \in Session /\ fpc[f] = "sync"
  BY OneWriter DEF Sync, BaseInv
<1>1. /\ st.row < MaxRows /\ events' = events /\ rows' = [rows EXCEPT ![f] = rows[f] \cup R]
      /\ \/ fpc' = [fpc EXCEPT ![f] = "write"] \/ fpc' = [fpc EXCEPT ![f] = "index"]
         \/ fpc' = [fpc EXCEPT ![f] = "group"]
  BY SyncIs DEF BaseInv, indexVars
<1>2. /\ st # NoState /\ k \in DOMAIN file[s] /\ st \in CurType
      /\ file[s][k] \in Seq(Item(Len(log))) /\ DOMAIN file[s][k] = 1 .. Len(file[s][k])
  <2>1. st # NoState /\ k \in DOMAIN file[s] /\ st \in CurType
    BY <1>0, OneWriter DEF BaseInv
  <2>2. QED
    BY <1>0, <2>1, FileType DEF BaseInv, StoreTypes
<1>3. n \in Nat \ {0} /\ st.row \in Nat
  <2>1. n \in Nat \ {0} /\ st.row + n <= MaxRows
    BY <1>0, <1>1, TakeIs DEF BaseInv
  <2>2. st.row \in Nat
    BY <1>2, RowsPositive DEF CurType
  <2>3. QED
    BY <2>1, <2>2
<1>4. dirty[s] = n /\ Fits(s)
  BY <1>0 DEF FileInv, SyncOK, Written
<1>5. st.row + n = Len(file[s][k]) /\ Sound(file[s][k])
  BY <1>2, <1>4 DEF Fits, StateFits
<1>6. ASSUME NEW r \in R, NEW o, o.sess \in Session, OnDisk(o) PROVE ~SameKey(r, o) /\ ~SameKey(o, r)
  <2> SUFFICES ASSUME o.sess = s, o.off = r.off PROVE FALSE
    BY DEF SameKey
  <2>1. PICK i \in DOMAIN q : r = [sess |-> s, off |-> q[i].seq, seg |-> cur[s].id, ev |-> q[i].ev]
    BY <1>6
  <2>2. DOMAIN q = 1 .. n
    <3>1. n \in 0 .. Take(f) /\ fpc[f] \in {"write", "sync"} /\ cur[sess[f]].row < MaxRows
      BY <1>0, <1>1, <1>3
    <3>2. QED
      BY <3>1, RecordsIs DEF BaseInv
  <2> DEFINE x == st.row + i
  <2>3. file[s][k][x] = q[i]
    <3>1. \A m \in 1 .. n : file[sess[f]][cur[sess[f]].idx][cur[sess[f]].row + m] = q[m]
      BY <1>0, Zenon DEF FileInv, SyncOK, Written
    <3>2. QED
      BY <2>2, <3>1
  <2>4. x \in DOMAIN file[s][k] /\ x \in Nat /\ x > st.row
    BY <1>2, <1>3, <1>5, <2>2, SMTT(30)
  <2>5. PICK l, j \in Nat : Kept(s, l, j) /\ file[s][l][j].seq = o.off
    BY <1>6 DEF OnDisk
  <2>6. file[s][k][x].ev # 0 /\ file[s][k][x].seq = r.off
    BY <1>5, <2>1, <2>3, <2>4 DEF Sound
  <2> HIDE DEF x
  <2>7. l = k /\ j = x
    <3>1. l \in DOMAIN file[s] /\ j \in DOMAIN file[s][l] /\ file[s][l][j].ev # 0
      BY <2>5 DEF Kept
    <3>2. file[s][l][j].seq = file[s][k][x].seq
      BY <2>5, <2>6
    <3>3. k \in DOMAIN file[s] /\ x \in DOMAIN file[s][k] /\ file[s][k][x].ev # 0
      BY <1>2, <2>4, <2>6
    <3>4. s \in Session /\ Fits(s)
      BY <1>0, <1>4
    <3> HIDE DEF s, k, q, n, st
    <3>5. QED
      BY <3>1, <3>2, <3>3, <3>4, SeqUnique
  <2>8. j <= Len(file[s][k]) - dirty[s]
    BY <2>5, <2>7 DEF Kept
  <2>9. Len(file[s][k]) - n = st.row
    BY <1>3, <1>5
  <2>10. QED
    BY <1>3, <1>4, <2>4, <2>7, <2>8, <2>9
<1>7. /\ \A o \in events : o.sess \in Session /\ OnDisk(o)
      /\ \A g \in Flusher : \A o \in rows[g] : o.sess \in Session /\ OnDisk(o)
  BY DEF RowsOK, EventsOnDisk, RowsOnDisk, BaseInv, StoreTypes, IndexOK, FlushOK, RowOf
<1> HIDE DEF R, s
<1>8. /\ rows'[f] = rows[f] \cup R /\ \A g \in Flusher : g # f => rows'[g] = rows[g] /\ fpc'[g] = fpc[g]
      /\ fpc'[f] # "confirm"
  BY <1>1 DEF BaseInv, StoreTypes, FlushOK
<1>9. \A g, h \in Flusher : g # h => \A r \in rows'[g], o \in rows'[h] : ~SameKey(r, o)
  BY <1>6, <1>7, <1>8 DEF KeysOK
<1>10. \A g \in Flusher : fpc'[g] # "confirm" => \A r \in rows'[g], o \in events' : ~SameKey(r, o)
  BY <1>0, <1>1, <1>6, <1>7, <1>8 DEF KeysOK
<1>11. \A g \in Flusher : fpc'[g] = "confirm" => rows'[g] \subseteq events'
  BY <1>1, <1>8 DEF KeysOK
<1>12. QED
  BY <1>9, <1>10, <1>11 DEF KeysOK

LEMMA InsertKeys ==
  ASSUME BaseInv, KeysOK, NEW f \in Flusher, InsertEvents(f)
  PROVE  KeysOK'
<1>1. CASE FlushFails(f)
  BY <1>1, GivesUpKeys
<1>2. CASE events' = events \cup rows[f] /\ fpc' = [fpc EXCEPT ![f] = "confirm"] /\ rows' = rows
  <2>1. fpc[f] # "confirm" /\ fpc'[f] = "confirm" /\ \A g \in Flusher : g # f => fpc'[g] = fpc[g]
    BY <1>2 DEF InsertEvents, BaseInv, StoreTypes, FlushOK
  <2>2. \A g \in Flusher : fpc'[g] # "confirm" => \A r \in rows'[g], o \in events' : ~SameKey(r, o)
    BY <1>2, <2>1 DEF KeysOK
  <2>3. \A g \in Flusher : fpc'[g] = "confirm" => rows'[g] \subseteq events'
    BY <1>2, <2>1 DEF KeysOK
  <2>4. \A g, h \in Flusher : g # h => \A r \in rows'[g], o \in rows'[h] : ~SameKey(r, o)
    BY <1>2 DEF KeysOK
  <2>5. QED
    BY <2>2, <2>3, <2>4 DEF KeysOK
<1>3. QED
  BY <1>1, <1>2 DEF InsertEvents

\* A rebuild adds events of a session that no flush writes.
LEMMA RebuildKeys ==
  ASSUME BaseInv, RowsOK, KeysOK, NEW s \in Session, Rebuild(s)
  PROVE  KeysOK'
<1> DEFINE found == {q \in UNION {NewEvents(s, k) : k \in Filled(s)} :
                       \A o \in events : o.sess = s => o.off # q.off}
<1>1. cur[s] = NoState /\ UNCHANGED <<rows, fpc>> /\ events' = events \cup found
  BY RebuildIs DEF flushVars
<1>2. \A q \in found : q.sess = s
  BY DEF NewEvents
<1>3. \A f \in Flusher : \A r \in rows[f] : r.sess # s
  BY <1>1 DEF RowsOK, RowsOnDisk
<1> HIDE DEF found
<1>4. \A f \in Flusher : fpc'[f] # "confirm" => \A r \in rows'[f], o \in events' : ~SameKey(r, o)
  BY <1>1, <1>2, <1>3 DEF KeysOK, SameKey
<1>5. QED
  BY <1>1, <1>4 DEF KeysOK

LEMMA KeysInit ==
  Init => KeysOK
BY DEF Init, KeysOK

LEMMA KeysNext ==
  ASSUME BaseInv, FileInv, RowsOK, KeysOK, [Next]_vars
  PROVE  KeysOK'
<1> USE DEF indexVars
<1>0. ASSUME NEW f \in Flusher, NEW p, UNCHANGED <<events, rows>>, p # "confirm", fpc[f] # "confirm",
             fpc' = [fpc EXCEPT ![f] = p]
      PROVE  KeysOK'
  <2>1. \A g \in Flusher : (fpc'[g] = "confirm") <=> (fpc[g] = "confirm")
    BY <1>0 DEF BaseInv, StoreTypes, FlushOK
  <2>2. QED
    BY <1>0, <2>1, QuietKeys
<1>1. ASSUME NEW f \in Flusher, NEW s \in Session, AppendEvent(f, s) PROVE KeysOK'
  <2> DEFINE p == IF Len(pending) + 1 >= BatchSize THEN "take" ELSE "idle"
  <2>1. UNCHANGED <<events, rows>> /\ p # "confirm" /\ fpc[f] # "confirm" /\ fpc' = [fpc EXCEPT ![f] = p]
    BY <1>1 DEF AppendEvent
  <2> HIDE DEF p
  <2>2. QED
    BY <1>0, <2>1
<1>2. ASSUME NEW f \in Flusher, TakeBatch(f) \/ FlushNothing(f) \/ Write(f) PROVE KeysOK'
  <2>1. /\ UNCHANGED <<events, rows>> /\ fpc[f] # "confirm"
        /\ \E p \in {"group", "idle", "sync"} : fpc' = [fpc EXCEPT ![f] = p]
    BY <1>2 DEF TakeBatch, FlushNothing, Write
  <2>2. PICK p \in {"group", "idle", "sync"} : fpc' = [fpc EXCEPT ![f] = p]
    BY <2>1
  <2>3. p # "confirm"
    OBVIOUS
  <2>4. QED
    BY <1>0, <2>1, <2>2, <2>3
<1>3. ASSUME NEW f \in Flusher, NEW s \in Session, OpenGroup(f, s) PROVE KeysOK'
  <2>1. CASE FlushFails(f)
    BY <2>1, GivesUpKeys
  <2>2. CASE UNCHANGED <<events, rows>> /\ fpc' = [fpc EXCEPT ![f] = "write"]
    <3>1. fpc[f] # "confirm" /\ "write" # "confirm"
      BY <1>3 DEF OpenGroup
    <3>2. QED
      BY <1>0, <2>2, <3>1
  <2>3. QED
    BY <1>3, <2>1, <2>2 DEF OpenGroup
<1>4. ASSUME NEW f \in Flusher, Roll(f) \/ InsertSegment(f) PROVE KeysOK'
  <2>1. CASE FlushFails(f)
    BY <2>1, GivesUpKeys
  <2>2. CASE UNCHANGED <<events, rows, fpc>>
    BY <2>2, QuietKeys
  <2>3. QED
    BY <1>4, <2>1, <2>2 DEF Roll, InsertSegment
<1>5. ASSUME NEW f \in Flusher, Sync(f) PROVE KeysOK'
  BY <1>5, SyncKeys
<1>6. ASSUME NEW f \in Flusher, InsertEvents(f) PROVE KeysOK'
  BY <1>6, InsertKeys
<1>7. ASSUME NEW f \in Flusher, Confirm(f) PROVE KeysOK'
  <2>1. events' = events /\ rows' = [rows EXCEPT ![f] = {}] /\ fpc' = [fpc EXCEPT ![f] = "idle"]
    BY <1>7 DEF Confirm
  <2>2. /\ \A g \in Flusher : rows'[g] = rows[g] \/ rows'[g] = {}
        /\ \A g \in Flusher : rows'[g] # {} => ((fpc'[g] = "confirm") <=> (fpc[g] = "confirm"))
    BY <2>1 DEF BaseInv, StoreTypes, FlushOK
  <2>3. QED
    BY <2>1, <2>2, QuietKeys
<1>8. ASSUME NEW f \in Flusher, Refuse(f) \/ WriteFails(f) \/ SyncFails(f) \/ IndexFails(f) PROVE KeysOK'
  <2>1. FlushFails(f)
    BY <1>8 DEF Refuse, WriteFails, SyncFails, IndexFails
  <2>2. QED
    BY <2>1, GivesUpKeys
<1>9. ASSUME NEW p \in Session, NEW c \in Session, NEW n \in 0 .. MaxEvents, Fork(p, n, c) PROVE KeysOK'
  <2>1. UNCHANGED <<events, rows, fpc>>
    BY <1>9 DEF Fork, flushVars
  <2>2. QED
    BY <2>1, QuietKeys
<1>10. ASSUME NEW s \in Session, Rebuild(s) PROVE KeysOK'
  BY <1>10, RebuildKeys
<1>11. ASSUME Crash PROVE KeysOK'
  BY <1>11 DEF Crash, KeysOK
<1>12. ASSUME UNCHANGED vars PROVE KeysOK'
  <2>1. UNCHANGED <<events, rows, fpc>>
    BY <1>12 DEF vars, flushVars
  <2>2. QED
    BY <2>1, QuietKeys
<1>13. QED
  BY <1>1, <1>2, <1>3, <1>4, <1>5, <1>6, <1>7, <1>8, <1>9, <1>10, <1>11, <1>12 DEF Next, FlushStep

\* As long as writes, fsyncs and the index work, the transaction of
\* insert_events meets no key that is in the table, neither from a flush that
\* overlaps nor from a rebuild, so no batch is rolled back for it.
THEOREM NoKeyConflictProved ==
  ASSUME ~IoErrors
  PROVE  Spec => []NoKeyConflict
<1> DEFINE I == BaseInv /\ FileInv /\ RowsOK /\ KeysOK
<1>1. Init => I
  BY BaseInit, FileInit, RowsInit, KeysInit
<1>2. I /\ [Next]_vars => I'
  BY BaseStep, FileStep, RowsNext, KeysNext
<1>3. I => NoKeyConflict
  BY DEF KeysOK, SameKey, NoKeyConflict
<1> HIDE DEF I
<1>4. QED
  BY <1>1, <1>2, <1>3, PTL DEF Spec

-----------------------------------------------------------------------------
(* An event is in one place: the queue, the batch of a flush, or a file.   *)

Distinct(q) == \A i, j \in DOMAIN q : q[i] = q[j] => i = j
In(e, q) == \E i \in DOMAIN q : q[i] = e

\* Flush f still has to write event e of session s.
Held(f, s, e) == In(e, groups[f][s])

\* The i-th record of segment k of session s is event e.
Rec(s, k, i, e) ==
  k \in DOMAIN file[s] /\ i \in DOMAIN file[s][k] /\ file[s][k][i].ev = e /\ e # 0

QueueOnce == Distinct(pending)

GroupsOnce ==
  \A f \in Flusher, s \in Session :
    /\ Distinct(groups[f][s])
    /\ \A e : Held(f, s, e) => log[e] = s /\ ~In(e, pending)

GroupsApart ==
  \A f, g \in Flusher, s \in Session : f # g => \A e : ~(Held(f, s, e) /\ Held(g, s, e))

RecordsOwn == \A s \in Session : \A k, i, e : Rec(s, k, i, e) => log[e] = s /\ ~In(e, pending)

RecordsOnce ==
  \A s \in Session : \A k, i, l, j, e : Rec(s, k, i, e) /\ Rec(s, l, j, e) => k = l /\ i = j

\* Only the records that are not synced are in a batch.
RecordsFree ==
  \A s \in Session : \A k, i, e : Rec(s, k, i, e) /\ Kept(s, k, i) => \A f \in Flusher : ~Held(f, s, e)

OnceOK == GroupsOnce /\ GroupsApart /\ RecordsOwn /\ RecordsOnce /\ RecordsFree

LEMMA Numbers ==
  ASSUME BaseInv
  PROVE  /\ \A f \in Flusher, s \in Session : \A e : Held(f, s, e) => e \in 1 .. Len(log)
         /\ \A s \in Session : \A k, i, e : Rec(s, k, i, e) => e \in 1 .. Len(log)
         /\ Len(log) \in Nat
<1>1. Len(log) \in Nat
  BY DEF BaseInv, StoreTypes, QueueOK
<1>2. ASSUME NEW f \in Flusher, NEW s \in Session, NEW e, Held(f, s, e) PROVE e \in 1 .. Len(log)
  <2>1. groups[f][s] \in Seq(1 .. Len(log))
    BY DEF BaseInv, StoreTypes, FlushOK
  <2>2. QED
    BY <1>2, <2>1 DEF Held, In
<1>3. ASSUME NEW s \in Session, NEW k, NEW i, NEW e, Rec(s, k, i, e) PROVE e \in 1 .. Len(log)
  <2>1. file[s][k][i] \in Item(Len(log))
    BY <1>3, FileType DEF Rec, BaseInv, StoreTypes
  <2>2. QED
    BY <1>1, <1>3, <2>1 DEF Rec, Item
<1>4. QED
  BY <1>1, <1>2, <1>3

\* Batches and files lose events, the queue may get a new one.
LEMMA OnceQuiet ==
  ASSUME BaseInv, OnceOK,
         \A e \in 1 .. Len(log) : log'[e] = log[e],
         \A f \in Flusher, s \in Session : groups'[f][s] = groups[f][s] \/ groups'[f][s] = <<>>,
         \A e : In(e, pending') => In(e, pending) \/ e = Len(log) + 1,
         \A s \in Session : \A k, i, e : Rec(s, k, i, e)' => Rec(s, k, i, e),
         \/ \A s \in Session : \A k, i, e : Rec(s, k, i, e)' /\ Kept(s, k, i)' => Kept(s, k, i)
         \/ \A f \in Flusher, s \in Session : groups'[f][s] = <<>>
  PROVE  OnceOK'
<1>1. \A f \in Flusher, s \in Session : \A e : Held(f, s, e)' => Held(f, s, e)
  BY DEF Held, In
<1>2. \A e \in 1 .. Len(log) : log'[e] = log[e] /\ (~In(e, pending) => ~In(e, pending'))
  BY Numbers
<1>3. GroupsOnce'
  <2> SUFFICES ASSUME NEW f \in Flusher, NEW s \in Session
               PROVE  Distinct(groups'[f][s]) /\ \A e : Held(f, s, e)' => log'[e] = s /\ ~In(e, pending')
    BY DEF GroupsOnce
  <2>1. Distinct(groups'[f][s])
    BY DEF OnceOK, GroupsOnce, Distinct
  <2>2. ASSUME NEW e, Held(f, s, e)' PROVE log'[e] = s /\ ~In(e, pending')
    <3>1. Held(f, s, e) /\ e \in 1 .. Len(log)
      BY <1>1, <2>2, Numbers
    <3>2. QED
      BY <1>2, <3>1 DEF OnceOK, GroupsOnce
  <2>3. QED
    BY <2>1, <2>2
<1>4. GroupsApart'
  BY <1>1 DEF OnceOK, GroupsApart
<1>5. RecordsOwn'
  <2> SUFFICES ASSUME NEW s \in Session, NEW k, NEW i, NEW e, Rec(s, k, i, e)'
               PROVE  log'[e] = s /\ ~In(e, pending')
    BY DEF RecordsOwn
  <2>1. Rec(s, k, i, e) /\ e \in 1 .. Len(log)
    BY Numbers
  <2>2. QED
    BY <1>2, <2>1 DEF OnceOK, RecordsOwn
<1>6. RecordsOnce'
  BY DEF OnceOK, RecordsOnce
<1>7. RecordsFree'
  <2> SUFFICES ASSUME NEW s \in Session, NEW k, NEW i, NEW e, Rec(s, k, i, e)', Kept(s, k, i)',
                      NEW f \in Flusher, Held(f, s, e)'
               PROVE  FALSE
    BY DEF RecordsFree
  <2>1. groups'[f][s] # <<>>
    BY DEF Held, In
  <2>2. Rec(s, k, i, e) /\ Kept(s, k, i) /\ Held(f, s, e)
    BY <1>1, <2>1
  <2>3. QED
    BY <2>2 DEF OnceOK, RecordsFree
<1>8. QED
  BY <1>3, <1>4, <1>5, <1>6, <1>7 DEF OnceOK

\* Nothing happens in the files.
LEMMA OnceSame ==
  ASSUME BaseInv, OnceOK, UNCHANGED <<file, cur, dirty>>,
         \A e \in 1 .. Len(log) : log'[e] = log[e],
         \A f \in Flusher, s \in Session : groups'[f][s] = groups[f][s] \/ groups'[f][s] = <<>>,
         \A e : In(e, pending') => In(e, pending) \/ e = Len(log) + 1
  PROVE  OnceOK'
<1>1. \A s \in Session : \A k, i, e : Rec(s, k, i, e)' => Rec(s, k, i, e)
  BY DEF Rec
<1>2. \A s \in Session : \A k, i, e : Rec(s, k, i, e)' /\ Kept(s, k, i)' => Kept(s, k, i)
  BY DEF Kept
<1>3. QED
  BY <1>1, <1>2, OnceQuiet

LEMMA GivesUpOnce ==
  ASSUME BaseInv, OnceOK, NEW f \in Flusher, FlushFails(f), file' = file
  PROVE  OnceOK'
<1>1. /\ groups' = [groups EXCEPT ![f] = NoGroups] /\ UNCHANGED <<log, pending, cur, dirty>>
  BY DEF FlushFails
<1>2. \A g \in Flusher, s \in Session : groups'[g][s] = groups[g][s] \/ groups'[g][s] = <<>>
  BY <1>1 DEF NoGroups, BaseInv, StoreTypes, FlushOK
<1>3. QED
  BY <1>1, <1>2, OnceSame

\* A file that is opened loses incomplete bytes.
LEMMA OpenedRecords ==
  ASSUME BaseInv, NEW s \in Session, NEW k \in 1 .. Len(file[s]) + 1, NEW first, NEW id, Opened(s, k, first, id)
  PROVE  \A t \in Session : \A l, i, e : Rec(t, l, i, e)' => Rec(t, l, i, e)
<1> SUFFICES ASSUME NEW t \in Session, NEW l, NEW i, NEW e, Rec(t, l, i, e)' PROVE Rec(t, l, i, e)
  OBVIOUS
<1> DEFINE F == file[s]
           q == IF k <= Len(F) THEN F[k] ELSE <<>>
<1>1. /\ file' = [file EXCEPT ![s] = IF k <= Len(F) THEN [F EXCEPT ![k] = Clean(q)] ELSE Append(F, <<>>)]
      /\ DOMAIN file = Session
  BY DEF Opened, BaseInv, StoreTypes, FilesOK
<1>2. CASE t # s
  BY <1>1, <1>2 DEF Rec
<1>3. CASE t = s
  <2>1. Len(F) \in Nat /\ DOMAIN F = 1 .. Len(F) /\ F \in Seq(Seq(Item(Len(log))))
    BY FileType DEF BaseInv, StoreTypes
  <2>2. CASE k <= Len(F)
    <3>1. file'[s] = [F EXCEPT ![k] = Clean(F[k])] /\ k \in DOMAIN F
      BY <1>1, <2>1, <2>2
    <3>2. l \in DOMAIN F /\ (l # k => file'[s][l] = F[l]) /\ (l = k => file'[s][l] = Clean(F[k]))
      BY <1>3, <3>1 DEF Rec
    <3>3. CASE l # k
      BY <1>3, <3>2, <3>3 DEF Rec
    <3>4. CASE l = k
      <4>1. F[k] \in Seq(Item(Len(log))) /\ DOMAIN F[k] = 1 .. Len(F[k]) /\ Len(F[k]) \in Nat
        BY <3>1, FileType DEF BaseInv, StoreTypes
      <4>2. /\ DOMAIN Clean(F[k]) = 1 .. Len(Clean(F[k])) /\ Len(Clean(F[k])) <= Len(F[k]) /\ Len(Clean(F[k])) \in Nat
            /\ \A j \in 1 .. Len(Clean(F[k])) : Clean(F[k])[j] = F[k][j]
        BY <4>1, CleanIs
      <4>3. i \in DOMAIN Clean(F[k]) /\ Clean(F[k])[i].ev = e /\ e # 0
        BY <1>3, <3>2, <3>4 DEF Rec
      <4>4. i \in DOMAIN F[k] /\ F[k][i].ev = e
        BY <4>1, <4>2, <4>3
      <4>5. QED
        BY <1>3, <3>1, <3>4, <4>3, <4>4 DEF Rec
    <3>5. QED
      BY <3>3, <3>4
  <2>3. CASE ~(k <= Len(F))
    <3>1. file'[s] = Append(F, <<>>)
      BY <1>1, <2>3
    <3>2. l \in 1 .. Len(F) + 1 /\ (l \in 1 .. Len(F) => file'[s][l] = F[l]) /\ (l = Len(F) + 1 => file'[s][l] = <<>>)
      BY <1>3, <2>1, <3>1 DEF Rec
    <3>3. i \in DOMAIN file'[s][l] /\ file'[s][l][i].ev = e /\ e # 0
      BY <1>3 DEF Rec
    <3>4. l \in 1 .. Len(F)
      <4>1. l # Len(F) + 1
        <5> SUFFICES ASSUME l = Len(F) + 1 PROVE FALSE
          OBVIOUS
        <5>1. file'[s][l] = <<>>
          BY <3>2
        <5>2. QED
          BY <3>3, <5>1
      <4> HIDE DEF F
      <4>2. QED
        BY <2>1, <3>2, <4>1
    <3>5. QED
      BY <1>3, <2>1, <3>2, <3>3, <3>4 DEF Rec
  <2>4. QED
    BY <2>2, <2>3
<1>4. QED
  BY <1>2, <1>3

\* While nothing is being synced every record is there for good.
LEMMA AllKept ==
  ASSUME BaseInv, FileInv, \A f \in Flusher : fpc[f] # "sync",
         NEW s \in Session, NEW k, NEW i, NEW e, Rec(s, k, i, e)
  PROVE  Kept(s, k, i)
<1>1. dirty[s] = 0
  BY NoSync
<1>2. k \in DOMAIN file[s] /\ i \in DOMAIN file[s][k] /\ file[s][k][i].ev # 0
  BY DEF Rec
<1>3. DOMAIN file[s][k] = 1 .. Len(file[s][k]) /\ Len(file[s][k]) \in Nat
  BY <1>2, FileType DEF BaseInv, StoreTypes
<1>4. i <= Len(file[s][k]) - dirty[s]
  BY <1>1, <1>2, <1>3
<1>5. QED
  BY <1>2, <1>4 DEF Kept

LEMMA OpenedOnce ==
  ASSUME BaseInv, FileInv, OnceOK, NEW s \in Session, NEW k \in 1 .. Len(file[s]) + 1, NEW first, NEW id,
         Opened(s, k, first, id), \A f \in Flusher : fpc[f] # "sync", UNCHANGED <<log, pending, groups>>
  PROVE  OnceOK'
<1>1. \A t \in Session : \A l, i, e : Rec(t, l, i, e)' => Rec(t, l, i, e)
  BY OpenedRecords
<1>2. \A t \in Session : \A l, i, e : Rec(t, l, i, e)' /\ Kept(t, l, i)' => Kept(t, l, i)
  BY <1>1, AllKept
<1>3. QED
  BY <1>1, <1>2, OnceQuiet

LEMMA OpenGroupOnce ==
  ASSUME BaseInv, FileInv, OnceOK, NEW f \in Flusher, NEW s \in Session, OpenGroup(f, s)
  PROVE  OnceOK'
<1>1. \A g \in Flusher : fpc[g] # "sync"
  BY SessionStoreAssumption DEF OpenGroup, BaseInv, StoreTypes, LockOK
<1>2. CASE FlushFails(f) /\ UNCHANGED file
  BY <1>2, GivesUpOnce
<1>3. CASE UNCHANGED <<cur, file, dirty, log, pending, groups>>
  BY <1>3, OnceSame
<1>4. CASE /\ Opened(s, LastSegment(s), StartSeq(s), SegmentId(s, LastSegment(s)))
           /\ UNCHANGED <<log, pending, groups>>
  <2>1. LastSegment(s) \in 1 .. Len(file[s]) + 1
    BY LastIs DEF BaseInv, StoreTypes
  <2>2. QED
    BY <1>1, <1>4, <2>1, OpenedOnce
<1>5. QED
  BY <1>2, <1>3, <1>4 DEF OpenGroup

LEMMA RollOnce ==
  ASSUME BaseInv, FileInv, OnceOK, NEW f \in Flusher, Roll(f)
  PROVE  OnceOK'
<1>1. fpc[f] = "write"
  BY DEF Roll
<1>2. /\ sess[f] \in Session /\ cur[sess[f]].idx \in DOMAIN file[sess[f]]
      /\ \A g \in Flusher : fpc[g] # "sync"
  BY <1>1, OneWriter DEF BaseInv
<1>3. CASE FlushFails(f) /\ UNCHANGED file
  BY <1>3, GivesUpOnce
<1>4. CASE /\ Opened(sess[f], cur[sess[f]].idx + 1, cur[sess[f]].next, nextId)
           /\ UNCHANGED <<log, pending, groups>>
  <2>1. cur[sess[f]].idx + 1 \in 1 .. Len(file[sess[f]]) + 1
    BY <1>2, FileType, SMTT(30) DEF BaseInv, StoreTypes
  <2>2. QED
    BY <1>2, <1>4, <2>1, OpenedOnce
<1>5. QED
  BY <1>3, <1>4 DEF Roll

LEMMA QueueNext ==
  ASSUME BaseInv, QueueOnce, [Next]_vars
  PROVE  QueueOnce'
<1>1. \/ pending' = pending \/ pending' = <<>>
      \/ pending' = Append(pending, Len(log) + 1)
  <2>1. ASSUME NEW f \in Flusher, NEW s \in Session, AppendEvent(f, s) PROVE pending' = Append(pending, Len(log) + 1)
    BY <2>1 DEF AppendEvent
  <2>2. ASSUME NEW f \in Flusher, TakeBatch(f) PROVE pending' = <<>>
    BY <2>2 DEF TakeBatch
  <2>3. ASSUME NEW f \in Flusher, FlushNothing(f) PROVE pending' = pending
    BY <2>3 DEF FlushNothing, memVars
  <2>4. ASSUME NEW f \in Flusher, FlushStep(f) PROVE pending' = pending
    <3>1. ASSUME NEW s \in Session, OpenGroup(f, s) PROVE pending' = pending
      BY <3>1 DEF OpenGroup, FlushFails
    <3>2. CASE Roll(f)
      BY <3>2 DEF Roll, FlushFails
    <3>3. CASE Write(f) \/ Sync(f)
      BY <3>3 DEF Write, Sync, memVars
    <3>4. CASE InsertSegment(f) \/ InsertEvents(f) \/ Confirm(f)
      BY <3>4 DEF InsertSegment, InsertEvents, Confirm, FlushFails, memVars
    <3>5. CASE Refuse(f) \/ WriteFails(f) \/ SyncFails(f) \/ IndexFails(f)
      BY <3>5 DEF Refuse, WriteFails, SyncFails, IndexFails, FlushFails
    <3>6. QED
      BY <2>4, <3>1, <3>2, <3>3, <3>4, <3>5 DEF FlushStep
  <2>5. ASSUME NEW p \in Session, NEW c \in Session, NEW n \in 0 .. MaxEvents, Fork(p, n, c) PROVE pending' = pending
    BY <2>5 DEF Fork, memVars
  <2>6. ASSUME NEW s \in Session, Rebuild(s) PROVE pending' = pending
    BY <2>6 DEF Rebuild, memVars
  <2>7. CASE Crash
    BY <2>7 DEF Crash
  <2>8. CASE UNCHANGED vars
    BY <2>8 DEF vars, memVars
  <2>9. QED
    BY <2>1, <2>2, <2>3, <2>4, <2>5, <2>6, <2>7, <2>8 DEF Next
<1>2. pending \in Seq(1 .. Len(log)) /\ Len(log) \in Nat
  BY DEF BaseInv, StoreTypes, QueueOK
<1>3. CASE pending' = Append(pending, Len(log) + 1)
  <2> DEFINE q == pending
             m == Len(log)
             r == Append(q, m + 1)
  <2>1. q \in Seq(1 .. m) /\ m \in Nat /\ DOMAIN q = 1 .. Len(q) /\ Len(q) \in Nat
    BY <1>2
  <2>2. \A i, j \in DOMAIN q : q[i] = q[j] => i = j
    BY DEF QueueOnce, Distinct
  <2> HIDE DEF q, m
  <2>3. /\ DOMAIN r = 1 .. Len(q) + 1 /\ r[Len(q) + 1] = m + 1
        /\ \A i \in 1 .. Len(q) : r[i] = q[i] /\ q[i] \in 1 .. m
    BY <2>1
  <2> HIDE DEF r
  <2>4. Distinct(r)
    BY <2>1, <2>2, <2>3 DEF Distinct
  <2>5. QED
    BY <1>3, <2>4 DEF QueueOnce, r, q, m
<1>4. QED
  BY <1>1, <1>3 DEF QueueOnce, Distinct

\* The batch that is taken was in the queue, and nowhere else.
LEMMA TakeOnce ==
  ASSUME BaseInv, QueueOnce, OnceOK, NEW f \in Flusher, TakeBatch(f)
  PROVE  OnceOK'
<1>1. /\ groups' = [groups EXCEPT ![f] = [s \in Session |-> Queued(s)]] /\ pending' = <<>>
      /\ UNCHANGED <<log, cur, file, dirty>>
  BY DEF TakeBatch, diskVars
<1>2. /\ \A g \in Flusher : g # f => groups'[g] = groups[g]
      /\ \A s \in Session : groups'[f][s] = Queued(s)
  BY <1>1 DEF BaseInv, StoreTypes, FlushOK
<1>3. ASSUME NEW s \in Session
      PROVE  Distinct(groups'[f][s]) /\ \A e : Held(f, s, e)' => In(e, pending) /\ log[e] = s
  <2>1. /\ \A i \in DOMAIN Queued(s) : log[Queued(s)[i]] = s /\ \E j \in DOMAIN pending : Queued(s)[i] = pending[j]
        /\ \A i, j \in DOMAIN Queued(s) : Queued(s)[i] = Queued(s)[j] => i = j
    BY QueuedIs DEF BaseInv, StoreTypes, QueueOnce, Distinct
  <2>2. groups'[f][s] = Queued(s)
    BY <1>2
  <2>3. QED
    BY <2>1, <2>2 DEF Distinct, Held, In
<1>4. \A e : ~In(e, pending')
  BY <1>1 DEF In
<1>5. \A g \in Flusher, s \in Session : \A e : g # f => (Held(g, s, e)' <=> Held(g, s, e))
  BY <1>2 DEF Held
<1>6. \A s \in Session : \A k, i, e : Rec(s, k, i, e)' <=> Rec(s, k, i, e)
  BY <1>1 DEF Rec
<1>7. GroupsOnce'
  <2> SUFFICES ASSUME NEW g \in Flusher, NEW s \in Session
               PROVE  Distinct(groups'[g][s]) /\ \A e : Held(g, s, e)' => log'[e] = s /\ ~In(e, pending')
    BY DEF GroupsOnce
  <2>1. CASE g = f
    BY <1>1, <1>3, <1>4, <2>1
  <2>2. CASE g # f
    <3>1. Distinct(groups[g][s]) /\ \A e : Held(g, s, e) => log[e] = s
      BY DEF OnceOK, GroupsOnce
    <3>2. groups'[g][s] = groups[g][s]
      BY <1>2, <2>2
    <3>3. QED
      BY <1>1, <1>4, <1>5, <2>2, <3>1, <3>2
  <2>3. QED
    BY <2>1, <2>2
<1>8. GroupsApart'
  <2> SUFFICES ASSUME NEW g \in Flusher, NEW h \in Flusher, NEW s \in Session, g # h, NEW e,
                      Held(g, s, e)', Held(h, s, e)'
               PROVE  FALSE
    BY DEF GroupsApart
  <2>1. CASE g # f /\ h # f
    BY <1>5, <2>1 DEF OnceOK, GroupsApart
  <2>2. ASSUME NEW o \in Flusher, o # f, Held(o, s, e)', Held(f, s, e)' PROVE FALSE
    <3>1. In(e, pending) /\ Held(o, s, e)
      BY <1>3, <1>5, <2>2
    <3>2. QED
      BY <3>1 DEF OnceOK, GroupsOnce
  <2>3. QED
    BY <2>1, <2>2
<1>9. RecordsOwn' /\ RecordsOnce'
  BY <1>1, <1>4, <1>6 DEF OnceOK, RecordsOwn, RecordsOnce
<1>10. RecordsFree'
  <2> SUFFICES ASSUME NEW s \in Session, NEW k, NEW i, NEW e, Rec(s, k, i, e)', Kept(s, k, i)',
                      NEW g \in Flusher, Held(g, s, e)'
               PROVE  FALSE
    BY DEF RecordsFree
  <2>1. Rec(s, k, i, e) /\ Kept(s, k, i)
    BY <1>1, <1>6 DEF Kept
  <2>2. CASE g = f
    <3>1. In(e, pending)
      BY <1>3, <2>2
    <3>2. QED
      BY <2>1, <3>1 DEF OnceOK, RecordsOwn
  <2>3. CASE g # f
    BY <1>5, <2>1, <2>3 DEF OnceOK, RecordsFree
  <2>4. QED
    BY <2>2, <2>3
<1>11. QED
  BY <1>7, <1>8, <1>9, <1>10 DEF OnceOK

\* What a flush writes is still in its batch and in no file.
LEMMA WriteOnce ==
  ASSUME BaseInv, FileInv, OnceOK, NEW f \in Flusher, Write(f)
  PROVE  OnceOK'
<1>0. sess[f] \in Session /\ fpc[f] = "write"
  BY OneWriter DEF Write, BaseInv
<1> PICK s \in Session : s = sess[f]
  BY <1>0
<1> DEFINE st == cur[s]
           k == st.idx
           n == Take(f)
           q == Records(f, n)
           x == file[s][k]
           T == Item(Len(log))
<1>1. /\ st.row < MaxRows /\ file' = [file EXCEPT ![s][k] = @ \o q]
      /\ dirty' = [dirty EXCEPT ![s] = @ + n]
      /\ UNCHANGED <<log, pending, cur, groups>>
  BY DEF Write, memVars
<1>2. /\ k \in DOMAIN file[s] /\ \A g \in Flusher : fpc[g] # "sync"
  BY <1>0, OneWriter DEF BaseInv
<1>3. n \in Nat \ {0} /\ n <= Len(groups[f][s])
  BY <1>0, <1>1, TakeIs DEF BaseInv
<1>4. /\ q \in Seq(T) /\ Len(q) = n /\ DOMAIN q = 1 .. n
      /\ \A i \in 1 .. n : q[i].ev = groups[f][s][i]
  <2>1. n \in 0 .. Take(f)
    BY <1>3
  <2>2. /\ q \in Seq(T) /\ Len(q) = n /\ DOMAIN q = 1 .. n
        /\ \A i \in 1 .. n :
             q[i] = [seq |-> st.next + i - 1, row |-> st.row + i - 1, ev |-> groups[f][s][i]]
    BY <1>0, <1>1, <2>1, RecordsIs DEF BaseInv
  <2> HIDE DEF q, n
  <2>3. QED
    BY <2>2
<1>5. \A i \in 1 .. n : i \in DOMAIN groups[f][s]
  <2>1. groups[f][s] \in Seq(1 .. Len(log))
    BY DEF BaseInv, StoreTypes, FlushOK
  <2>2. DOMAIN groups[f][s] = 1 .. Len(groups[f][s]) /\ Len(groups[f][s]) \in Nat
    BY <2>1
  <2>3. QED
    BY <1>3, <2>2
<1>6. /\ \A t \in Session : t # s => file'[t] = file[t]
      /\ DOMAIN file'[s] = DOMAIN file[s]
      /\ \A l \in DOMAIN file[s] : l # k => file'[s][l] = file[s][l]
      /\ file'[s][k] = x \o q
  <2>1. StoreTypes /\ k \in DOMAIN file[s] /\ q \in Seq(Item(Len(log))) /\ log' = log
        /\ file' = [file EXCEPT ![s][k] = @ \o q]
    BY <1>1, <1>2, <1>4 DEF BaseInv
  <2> HIDE DEF q, k
  <2>2. Enlarged(s, k, q)
    BY <2>1, ExtendedThus
  <2>3. QED
    BY <2>2 DEF Enlarged
<1>7. x \in Seq(T) /\ Len(x) \in Nat /\ DOMAIN x = 1 .. Len(x)
  BY <1>2, FileType DEF BaseInv, StoreTypes
<1>8. /\ Len(x \o q) = Len(x) + n /\ DOMAIN (x \o q) = 1 .. Len(x) + n
      /\ \A i \in DOMAIN x : (x \o q)[i] = x[i]
      /\ \A i \in 1 .. Len(x) + n : i \notin DOMAIN x => i - Len(x) \in 1 .. n /\ (x \o q)[i] = q[i - Len(x)]
  <2> HIDE DEF x, q, n, T
  <2>1. /\ x \o q \in Seq(T) /\ Len(x \o q) = Len(x) + Len(q)
        /\ \A i \in 1 .. Len(x) + Len(q) : (x \o q)[i] = IF i <= Len(x) THEN x[i] ELSE q[i - Len(x)]
    BY <1>4, <1>7, ConcatProperties
  <2>2. QED
    BY <1>3, <1>4, <1>7, <2>1
<1>9. dirty'[s] = n
  <2>1. dirty[s] = 0 /\ DOMAIN dirty = Session
    BY <1>2, NoSync DEF BaseInv, StoreTypes, OpenOK
  <2>2. QED
    BY <1>1, <1>3, <2>1
\* A record was there before, or comes from the batch and is not synced.
<1> DEFINE New(l, i, e) == /\ l = k /\ i - Len(x) \in 1 .. n /\ groups[f][s][i - Len(x)] = e
                           /\ i \in 1 .. Len(x) + n
<1>10. ASSUME NEW t \in Session, NEW l, NEW i, NEW e, Rec(t, l, i, e)'
       PROVE  Rec(t, l, i, e) \/ (t = s /\ New(l, i, e))
  <2>1. CASE t # s \/ l # k
    BY <1>6, <1>10, <2>1 DEF Rec
  <2>2. CASE t = s /\ l = k
    <3>1. i \in 1 .. Len(x) + n /\ (x \o q)[i].ev = e /\ e # 0
      BY <1>6, <1>8, <1>10, <2>2 DEF Rec
    <3>2. CASE i \in DOMAIN x
      BY <1>2, <1>8, <2>2, <3>1, <3>2 DEF Rec
    <3>3. CASE i \notin DOMAIN x
      <4>1. i - Len(x) \in 1 .. n /\ (x \o q)[i] = q[i - Len(x)]
        BY <1>8, <3>1, <3>3
      <4>2. q[i - Len(x)].ev = groups[f][s][i - Len(x)]
        BY <1>4, <4>1
      <4>3. groups[f][s][i - Len(x)] = e
        BY <3>1, <4>1, <4>2, Zenon
      <4>4. New(l, i, e)
        BY <2>2, <3>1, <4>1, <4>3, Zenon
      <4>5. QED
        BY <2>2, <4>4, Zenon
    <3>4. QED
      BY <3>2, <3>3
  <2>3. QED
    BY <2>1, <2>2
<1>11. ASSUME NEW l, NEW i, NEW e, New(l, i, e) PROVE Held(f, s, e) /\ ~Kept(s, l, i)'
  <2>1. Held(f, s, e)
    BY <1>5, <1>11 DEF Held, In
  <2>2. ~(i <= Len(x \o q) - n)
    <3> HIDE DEF x, q, n
    <3>1. QED
      BY <1>3, <1>7, <1>8, <1>11
  <2>3. l = cur'[s].idx /\ file'[s][l] = x \o q
    BY <1>1, <1>6, <1>11
  <2>4. QED
    BY <1>9, <2>1, <2>2, <2>3 DEF Kept
<1>12. \A t \in Session : \A l, i, e : Rec(t, l, i, e) => \A g \in Flusher : ~Held(g, t, e)
  BY <1>2, AllKept DEF OnceOK, RecordsFree
<1>13. \A t \in Session, g \in Flusher : \A e : Held(g, t, e)' <=> Held(g, t, e)
  BY <1>1 DEF Held
<1> HIDE DEF New
<1>14. GroupsOnce' /\ GroupsApart'
  BY <1>1, <1>13 DEF OnceOK, GroupsOnce, GroupsApart
<1>15. RecordsOwn'
  <2> SUFFICES ASSUME NEW t \in Session, NEW l, NEW i, NEW e, Rec(t, l, i, e)' PROVE log[e] = t /\ ~In(e, pending)
    BY <1>1 DEF RecordsOwn
  <2>1. CASE Rec(t, l, i, e)
    BY <2>1 DEF OnceOK, RecordsOwn
  <2>2. CASE t = s /\ New(l, i, e)
    <3>1. Held(f, s, e)
      BY <1>11, <2>2
    <3>2. QED
      BY <2>2, <3>1 DEF OnceOK, GroupsOnce
  <2>3. QED
    BY <1>10, <2>1, <2>2
<1>16. RecordsOnce'
  <2> SUFFICES ASSUME NEW t \in Session, NEW l, NEW i, NEW m, NEW j, NEW e, Rec(t, l, i, e)', Rec(t, m, j, e)'
               PROVE  l = m /\ i = j
    BY DEF RecordsOnce
  <2>1. CASE Rec(t, l, i, e) /\ Rec(t, m, j, e)
    BY <2>1 DEF OnceOK, RecordsOnce
  <2>2. CASE t = s /\ New(l, i, e) /\ New(m, j, e)
    <3> DEFINE a == i - Len(x)
               b == j - Len(x)
    <3>1. /\ l = k /\ m = k /\ a \in DOMAIN groups[f][s] /\ b \in DOMAIN groups[f][s]
          /\ groups[f][s][a] = groups[f][s][b]
          /\ i \in 1 .. Len(x) + n /\ j \in 1 .. Len(x) + n
      BY <1>5, <2>2 DEF New
    <3>2. a = b
      BY <3>1 DEF OnceOK, GroupsOnce, Distinct
    <3> HIDE DEF x, n
    <3>3. i = j
      BY <1>3, <1>7, <3>1, <3>2
    <3>4. QED
      BY <3>1, <3>3
  <2>3. CASE t = s /\ ((Rec(t, l, i, e) /\ New(m, j, e)) \/ (Rec(t, m, j, e) /\ New(l, i, e)))
    <3>1. Held(f, s, e)
      BY <1>11, <2>3
    <3>2. QED
      BY <1>12, <2>3, <3>1
  <2>4. QED
    BY <1>10, <2>1, <2>2, <2>3
<1>17. RecordsFree'
  <2> SUFFICES ASSUME NEW t \in Session, NEW l, NEW i, NEW e, Rec(t, l, i, e)', Kept(t, l, i)',
                      NEW g \in Flusher, Held(g, t, e)'
               PROVE  FALSE
    BY DEF RecordsFree
  <2>1. Rec(t, l, i, e)
    BY <1>10, <1>11
  <2>2. QED
    BY <1>12, <1>13, <2>1
<1>18. QED
  BY <1>14, <1>15, <1>16, <1>17 DEF OnceOK

\* The rest of a list after its first n members.
LEMMA RestIs ==
  ASSUME NEW T, NEW q \in Seq(T), NEW n \in Nat, n <= Len(q), NEW r, r = SubSeq(q, n + 1, Len(q))
  PROVE  \A i \in DOMAIN r : i \in Nat /\ i + n \in DOMAIN q /\ n < i + n /\ r[i] = q[i + n]
<1>1. Len(q) \in Nat /\ DOMAIN q = 1 .. Len(q)
  OBVIOUS
<1>2. \A i \in n + 1 .. Len(q) : q[i] \in T
  BY <1>1
<1>3. /\ r \in Seq(T) /\ Len(r) = IF n + 1 <= Len(q) THEN Len(q) - (n + 1) + 1 ELSE 0
      /\ \A i \in 1 .. Len(q) - (n + 1) + 1 : r[i] = q[n + 1 + i - 1]
  BY <1>1, <1>2, SubSeqProperties
<1> PICK m : m = Len(q)
  OBVIOUS
<1>4. DOMAIN r = 1 .. Len(r) /\ m \in Nat /\ n <= m /\ DOMAIN q = 1 .. m
  BY <1>1, <1>3
<1>5. Len(r) = m - n
  <2>1. Len(r) = IF n + 1 <= m THEN m - (n + 1) + 1 ELSE 0
    BY <1>3
  <2>2. QED
    BY <1>4, <2>1
<1>6. \A i \in 1 .. m - n : r[i] = q[i + n]
  <2>1. \A i \in 1 .. m - (n + 1) + 1 : r[i] = q[n + 1 + i - 1]
    BY <1>3
  <2>2. m - (n + 1) + 1 = m - n /\ \A i \in 1 .. m - n : n + 1 + i - 1 = i + n
    BY <1>4
  <2>3. QED
    BY <2>1, <2>2
<1>7. \A i \in 1 .. m - n : i \in Nat /\ i + n \in 1 .. m /\ n < i + n
  BY <1>4
<1>8. QED
  BY <1>4, <1>5, <1>6, <1>7

\* What is synced leaves the batch.
LEMMA SyncOnce ==
  ASSUME BaseInv, FileInv, OnceOK, NEW f \in Flusher, Sync(f)
  PROVE  OnceOK'
<1>0. sess[f] \in Session /\ fpc[f] = "sync"
  BY OneWriter DEF Sync, BaseInv
<1> PICK s \in Session : s = sess[f]
  BY <1>0
<1> PICK n : n = Take(f)
  OBVIOUS
<1> DEFINE st == cur[s]
           k == st.idx
           g == groups[f][s]
           x == file[s][k]
<1>1. /\ st.row < MaxRows /\ cur' = [cur EXCEPT ![s] = Advanced(st, n)]
      /\ dirty' = [dirty EXCEPT ![s] = 0]
      /\ groups' = [groups EXCEPT ![f] = [groups[f] EXCEPT ![s] = SubSeq(g, n + 1, Len(g))]]
  BY SyncIs DEF BaseInv
<1>2. UNCHANGED <<log, pending, file>>
  BY DEF Sync
<1>3. st \in CurType /\ st # NoState /\ k \in DOMAIN file[s] /\ st.row \in Nat
  BY <1>0, OneWriter, RowsPositive DEF BaseInv, CurType
<1>4. n \in Nat \ {0} /\ n <= Len(g) /\ g \in Seq(1 .. Len(log))
  <2>1. n \in Nat \ {0} /\ n <= Len(g)
    BY <1>0, <1>1, TakeIs DEF BaseInv
  <2>2. QED
    BY <2>1 DEF BaseInv, StoreTypes, FlushOK
<1>5. /\ \A o \in Flusher : o # f => groups'[o] = groups[o]
      /\ \A t \in Session : t # s => groups'[f][t] = groups[f][t]
      /\ groups'[f][s] = SubSeq(g, n + 1, Len(g))
  BY <1>1 DEF BaseInv, StoreTypes, FlushOK
<1>6. \A i \in DOMAIN groups'[f][s] :
        i \in Nat /\ i + n \in DOMAIN g /\ n < i + n /\ groups'[f][s][i] = g[i + n]
  <2> DEFINE r == groups'[f][s]
             T == 1 .. Len(log)
  <2>1. g \in Seq(T) /\ n \in Nat /\ n <= Len(g) /\ r = SubSeq(g, n + 1, Len(g))
    BY <1>4, <1>5
  <2> HIDE DEF g, r, T
  <2>2. \A i \in DOMAIN r : i \in Nat /\ i + n \in DOMAIN g /\ n < i + n /\ r[i] = g[i + n]
    BY <2>1, RestIs, SMTT(30)
  <2>3. QED
    BY <2>2 DEF r
<1>7. Distinct(g)
  BY DEF OnceOK, GroupsOnce
<1> HIDE DEF g
<1>8. \A o \in Flusher, t \in Session : \A e : Held(o, t, e)' => Held(o, t, e)
  <2> SUFFICES ASSUME NEW o \in Flusher, NEW t \in Session, NEW e, Held(o, t, e)' PROVE Held(o, t, e)
    OBVIOUS
  <2>1. CASE o = f /\ t = s
    BY <1>6, <2>1 DEF Held, In, g
  <2>2. CASE ~(o = f /\ t = s)
    BY <1>5, <2>2 DEF Held
  <2>3. QED
    BY <2>1, <2>2
<1>9. GroupsOnce'
  <2> SUFFICES ASSUME NEW o \in Flusher, NEW t \in Session
               PROVE  Distinct(groups'[o][t]) /\ \A e : Held(o, t, e)' => log[e] = t /\ ~In(e, pending)
    BY <1>2 DEF GroupsOnce
  <2>1. \A e : Held(o, t, e)' => log[e] = t /\ ~In(e, pending)
    BY <1>8 DEF OnceOK, GroupsOnce
  <2>2. CASE o = f /\ t = s
    <3> SUFFICES ASSUME NEW i \in DOMAIN groups'[f][s], NEW j \in DOMAIN groups'[f][s],
                        groups'[f][s][i] = groups'[f][s][j]
                 PROVE  i = j
      BY <2>1, <2>2 DEF Distinct
    <3>1. i + n = j + n
      BY <1>6, <1>7 DEF Distinct
    <3>2. i \in Nat /\ j \in Nat
      BY <1>6
    <3>3. QED
      BY <1>4, <3>1, <3>2
  <2>3. CASE ~(o = f /\ t = s)
    <3>1. groups'[o][t] = groups[o][t] /\ Distinct(groups[o][t])
      BY <1>5, <2>3 DEF OnceOK, GroupsOnce
    <3>2. QED
      BY <2>1, <3>1
  <2>4. QED
    BY <2>2, <2>3
<1>10. GroupsApart'
  BY <1>8 DEF OnceOK, GroupsApart
<1>11. \A t \in Session : \A l, i, e : Rec(t, l, i, e)' <=> Rec(t, l, i, e)
  BY <1>2 DEF Rec
<1>12. RecordsOwn' /\ RecordsOnce'
  BY <1>2, <1>11 DEF OnceOK, RecordsOwn, RecordsOnce
<1>13. RecordsFree'
  <2> SUFFICES ASSUME NEW t \in Session, NEW l, NEW i, NEW e, Rec(t, l, i, e)', Kept(t, l, i)',
                      NEW o \in Flusher, Held(o, t, e)'
               PROVE  FALSE
    BY DEF RecordsFree
  <2>1. Rec(t, l, i, e) /\ Held(o, t, e)
    BY <1>8, <1>11
  <2>2. ~Kept(t, l, i)
    BY <2>1 DEF OnceOK, RecordsFree
  <2>3. t = s
    <3> SUFFICES ASSUME t # s PROVE FALSE
      OBVIOUS
    <3>1. cur'[t] = cur[t] /\ dirty'[t] = dirty[t] /\ file'[t] = file[t]
      BY <1>1, <1>2 DEF BaseInv, StoreTypes, OpenOK
    <3>2. QED
      BY <2>2, <3>1 DEF Kept
  <2>4. /\ l = k /\ i \in DOMAIN x /\ ~(i <= Len(x) - dirty[s]) /\ x[i].ev = e
    BY <2>1, <2>2, <2>3 DEF Kept, Rec
  <2>5. /\ dirty[s] = n /\ \A j \in 1 .. n : x[st.row + j] = Records(f, n)[j]
    BY <1>0 DEF FileInv, SyncOK, Written
  <2>6. st.row + dirty[s] = Len(x)
    BY <1>3 DEF FileInv, Fits, StateFits
  <2>7. DOMAIN x = 1 .. Len(x) /\ Len(x) \in Nat
    BY <1>3, FileType DEF BaseInv, StoreTypes
  <2> PICK j : j = i - st.row
    OBVIOUS
  <2>8. j \in 1 .. n /\ st.row + j = i
    <3> DEFINE a == Len(x)
               b == st.row
    <3>1. a \in Nat /\ b \in Nat /\ i \in 1 .. a /\ ~(i <= a - n) /\ b + n = a /\ j = i - b
      BY <1>3, <2>4, <2>5, <2>6, <2>7
    <3>1a. n \in Nat
      BY <1>4
    <3> HIDE DEF a, b, st
    <3>2. j \in 1 .. n /\ b + j = i
      <4>1. i \in Nat /\ i <= a /\ i > a - n
        BY <3>1, <3>1a
      <4>2. j \in Int /\ 1 <= j /\ j <= n /\ b + j = i
        BY <3>1, <3>1a, <4>1
      <4>3. QED
        BY <3>1a, <4>2
    <3>3. QED
      BY <3>2 DEF b
  <2>9. g[j] = e
    <3>1. n \in 0 .. Take(f) /\ fpc[f] \in {"write", "sync"} /\ cur[sess[f]].row < MaxRows
      BY <1>0, <1>1, <1>4
    <3>2. Records(f, n)[j] = [seq |-> cur[sess[f]].next + j - 1, row |-> cur[sess[f]].row + j - 1,
                              ev |-> groups[f][sess[f]][j]]
      BY <2>8, <3>1, RecordsIs DEF BaseInv
    <3>3. x[i] = Records(f, n)[j]
      BY <2>5, <2>8
    <3>4. QED
      BY <2>4, <3>2, <3>3 DEF g
  <2>10. j \in DOMAIN g
    <3>1. DOMAIN g = 1 .. Len(g) /\ Len(g) \in Nat
      BY <1>4
    <3>2. QED
      BY <1>4, <2>8, <3>1
  <2>11. CASE o = f
    <3>1. PICK m \in DOMAIN groups'[f][s] : groups'[f][s][m] = e
      BY <2>3, <2>11 DEF Held, In
    <3>2. m \in Nat /\ m + n \in DOMAIN g /\ g[m + n] = e /\ n < m + n
      BY <1>6, <3>1
    <3>3. m + n = j
      BY <1>7, <2>9, <2>10, <3>2 DEF Distinct
    <3>4. QED
      BY <1>4, <2>8, <3>2, <3>3
  <2>12. CASE o # f
    <3>1. Held(f, s, e)
      BY <2>9, <2>10 DEF Held, In, g
    <3>2. QED
      BY <2>1, <2>3, <2>12, <3>1 DEF OnceOK, GroupsApart
  <2>13. QED
    BY <2>11, <2>12
<1>14. QED
  BY <1>9, <1>10, <1>12, <1>13 DEF OnceOK

LEMMA ForkOnce ==
  ASSUME BaseInv, OnceOK, NEW p \in Session, NEW c \in Session, NEW n, Fork(p, n, c)
  PROVE  OnceOK'
<1>1. /\ file[c] = <<>> /\ file' = [file EXCEPT ![c] = << << >> >>] /\ UNCHANGED <<log, pending, groups, dirty>>
  BY ForkIs DEF flushVars
<1>2. \A t \in Session : t # c => cur'[t] = cur[t]
  BY DEF Fork, BaseInv, StoreTypes, OpenOK
<1>3. file'[c] = << << >> >> /\ \A t \in Session : t # c => file'[t] = file[t]
  BY <1>1 DEF BaseInv, StoreTypes, FilesOK
<1>4. \A l, i, e : ~Rec(c, l, i, e)'
  <2> SUFFICES ASSUME NEW l, NEW i, l \in DOMAIN << << >> >>, i \in DOMAIN << << >> >>[l] PROVE FALSE
    BY <1>3 DEF Rec
  <2>1. l = 1
    OBVIOUS
  <2>2. << << >> >>[l] = << >>
    BY <2>1
  <2>3. QED
    BY <2>2
<1>5. \A t \in Session : \A l, i, e : Rec(t, l, i, e)' => Rec(t, l, i, e)
  BY <1>3, <1>4 DEF Rec
<1>6. \A t \in Session : \A l, i, e : Rec(t, l, i, e)' /\ Kept(t, l, i)' => Kept(t, l, i)
  <2> SUFFICES ASSUME NEW t \in Session, NEW l, NEW i, NEW e, Rec(t, l, i, e)', Kept(t, l, i)' PROVE Kept(t, l, i)
    OBVIOUS
  <2>1. t # c
    BY <1>4
  <2>2. QED
    BY <1>1, <1>2, <1>3, <2>1 DEF Kept
<1>7. QED
  BY <1>1, <1>5, <1>6, OnceQuiet

LEMMA CrashOnce ==
  ASSUME BaseInv, FileInv, OnceOK, Crash
  PROVE  OnceOK'
<1>1. /\ groups' = [f \in Flusher |-> NoGroups] /\ pending' = <<>> /\ log' = log
      /\ \A s \in Session : file'[s] \in Left(s)
  BY DEF Crash
<1>2. \A f \in Flusher, s \in Session : groups'[f][s] = <<>>
  BY <1>1 DEF NoGroups
<1>3. \A e : ~In(e, pending')
  BY <1>1 DEF In
<1>4. ASSUME NEW s \in Session, NEW k, NEW i, NEW e, Rec(s, k, i, e)' PROVE Rec(s, k, i, e)
  <2>1. DOMAIN file'[s] = DOMAIN file[s] /\ (dirty[s] = 0 => file'[s] = file[s]) /\ dirty[s] \in Nat
    BY <1>1, LeftIs DEF BaseInv, StoreTypes, OpenOK
  <2>2. CASE dirty[s] = 0
    BY <1>4, <2>1, <2>2 DEF Rec
  <2>3. CASE dirty[s] > 0
    <3> DEFINE c == cur[s].idx
               x == file[s][c]
               y == file'[s][c]
               d == dirty[s]
               T == Item(Len(log))
    <3>1. cur[s] # NoState /\ d <= Len(x) /\ c \in DOMAIN file[s] /\ d \in Nat
      BY <2>3 DEF BaseInv, StoreTypes, OpenOK
    <3>2. Sound(x) /\ x \in Seq(T)
      BY <3>1, FileType DEF FileInv, Fits, StateFits, BaseInv, StoreTypes
    <3>3. \A l \in DOMAIN file[s] : l # c => file'[s][l] = file[s][l]
      BY <1>1, <2>3, LeftIs DEF BaseInv
    <3>4. PICK m \in Len(x) - d .. Len(x), tail \in {<<>>, <<Torn>>} : y = SubSeq(x, 1, m) \o tail
      BY <1>1, <2>3, LeftIs DEF BaseInv
    <3>5. CASE k # c
      BY <1>4, <2>1, <3>3, <3>5 DEF Rec
    <3>6. CASE k = c
      <4>1. i \in DOMAIN y /\ y[i].ev = e /\ e # 0
        BY <1>4, <3>6 DEF Rec
      <4>2. i \in DOMAIN x /\ x[i].ev = e
        <5> HIDE DEF x, y, d, T
        <5>1. Remains(x, d, y)
          BY <3>1, <3>2, <3>4, LeftFits
        <5>2. QED
          BY <4>1, <5>1 DEF Remains
      <4>3. QED
        BY <3>1, <3>6, <4>1, <4>2 DEF Rec
    <3>7. QED
      BY <3>5, <3>6
  <2>4. QED
    BY <2>1, <2>2, <2>3
<1>5. QED
  BY <1>1, <1>2, <1>3, <1>4, OnceQuiet

LEMMA OnceInit ==
  Init => OnceOK
<1> SUFFICES ASSUME Init PROVE OnceOK
  OBVIOUS
<1>1. /\ \A f \in Flusher, s \in Session : groups[f][s] = <<>>
      /\ \A s \in Session : file[s] = <<>>
  BY DEF Init, NoGroups
<1>2. /\ \A f \in Flusher, s \in Session : \A e : ~Held(f, s, e)
      /\ \A s \in Session : \A k, i, e : ~Rec(s, k, i, e)
  BY <1>1 DEF Held, In, Rec
<1>3. GroupsOnce
  BY <1>1, <1>2 DEF GroupsOnce, Distinct
<1>4. QED
  BY <1>2, <1>3 DEF OnceOK, GroupsApart, RecordsOwn, RecordsOnce, RecordsFree

LEMMA OnceNext ==
  ASSUME BaseInv, FileInv, QueueOnce, OnceOK, ~IoErrors, [Next]_vars
  PROVE  OnceOK'
<1> USE DEF memVars, diskVars
<1>1. ASSUME NEW f \in Flusher, NEW s \in Session, AppendEvent(f, s) PROVE OnceOK'
  <2>1. /\ log' = Append(log, s) /\ pending' = Append(pending, Len(log) + 1)
        /\ UNCHANGED <<cur, groups, file, dirty>>
    BY <1>1 DEF AppendEvent
  <2>2. log \in Seq(Session) /\ pending \in Seq(1 .. Len(log)) /\ Len(log) \in Nat
    BY DEF BaseInv, StoreTypes, QueueOK
  <2>3. \A e \in 1 .. Len(log) : log'[e] = log[e]
    BY <2>1, <2>2
  <2>4. ASSUME NEW e, In(e, pending') PROVE In(e, pending) \/ e = Len(log) + 1
    <3>1. PICK i \in DOMAIN pending' : pending'[i] = e
      BY <2>4 DEF In
    <3>2. DOMAIN pending' = 1 .. Len(pending) + 1 /\ DOMAIN pending = 1 .. Len(pending) /\ Len(pending) \in Nat
      BY <2>1, <2>2
    <3>3. CASE i = Len(pending) + 1
      BY <2>1, <2>2, <3>1, <3>3
    <3>4. CASE i # Len(pending) + 1
      <4>1. i \in DOMAIN pending
        BY <3>2, <3>4
      <4>2. pending'[i] = pending[i]
        BY <2>1, <2>2, <3>2, <4>1
      <4>3. QED
        BY <3>1, <4>1, <4>2 DEF In
    <3>5. QED
      BY <3>3, <3>4
  <2>5. QED
    BY <2>1, <2>3, <2>4, OnceSame
<1>2. ASSUME NEW f \in Flusher, TakeBatch(f) PROVE OnceOK'
  BY <1>2, TakeOnce
<1>3. ASSUME NEW f \in Flusher, FlushNothing(f) \/ InsertSegment(f) \/ Confirm(f) PROVE OnceOK'
  <2>1. UNCHANGED <<log, pending, groups, cur, file, dirty>>
    BY <1>3 DEF FlushNothing, InsertSegment, Confirm
  <2>2. QED
    BY <2>1, OnceSame
<1>4. ASSUME NEW f \in Flusher, NEW s \in Session, OpenGroup(f, s) PROVE OnceOK'
  BY <1>4, OpenGroupOnce
<1>5. ASSUME NEW f \in Flusher, Roll(f) PROVE OnceOK'
  BY <1>5, RollOnce
<1>6. ASSUME NEW f \in Flusher, Write(f) PROVE OnceOK'
  BY <1>6, WriteOnce
<1>7. ASSUME NEW f \in Flusher, Sync(f) PROVE OnceOK'
  BY <1>7, SyncOnce
<1>8. ASSUME NEW f \in Flusher, InsertEvents(f) PROVE OnceOK'
  <2>1. CASE FlushFails(f) /\ UNCHANGED file
    BY <2>1, GivesUpOnce
  <2>2. CASE UNCHANGED <<log, pending, groups, cur, file, dirty>>
    BY <2>2, OnceSame
  <2>3. QED
    BY <1>8, <2>1, <2>2 DEF InsertEvents
<1>9. ASSUME NEW f \in Flusher, Refuse(f) \/ WriteFails(f) \/ SyncFails(f) \/ IndexFails(f) PROVE OnceOK'
  <2>1. FlushFails(f) /\ file' = file
    BY <1>9 DEF Refuse, WriteFails, SyncFails, IndexFails
  <2>2. QED
    BY <2>1, GivesUpOnce
<1>10. ASSUME NEW p \in Session, NEW c \in Session, NEW n \in 0 .. MaxEvents, Fork(p, n, c) PROVE OnceOK'
  BY <1>10, ForkOnce
<1>11. ASSUME NEW s \in Session, Rebuild(s) PROVE OnceOK'
  <2>1. UNCHANGED <<log, pending, groups, cur, file, dirty>>
    BY <1>11 DEF Rebuild, flushVars
  <2>2. QED
    BY <2>1, OnceSame
<1>12. ASSUME Crash PROVE OnceOK'
  BY <1>12, CrashOnce
<1>13. ASSUME UNCHANGED vars PROVE OnceOK'
  <2>1. UNCHANGED <<log, pending, groups, cur, file, dirty>>
    BY <1>13 DEF vars, flushVars
  <2>2. QED
    BY <2>1, OnceSame
<1>14. QED
  BY <1>1, <1>2, <1>3, <1>4, <1>5, <1>6, <1>7, <1>8, <1>9, <1>10, <1>11, <1>12, <1>13 DEF Next, FlushStep

-----------------------------------------------------------------------------
(* A confirmed event is kept.                                              *)

\* What a fork inherited is below its fork point.
SeenOK == \A s \in Session : \A x \in base[s].seen : x.seq < base[s].from

Known(e) == \E q \in events : q.ev = e /\ q.sess = log[e]
OkKnown == \A e \in ok : Known(e)

LogGrows == Len(log) <= Len(log') /\ \A e \in 1 .. Len(log) : log'[e] = log[e]

\* Only a fork sets a fork point, no row of an event is ever deleted, and only
\* a flush that returns confirms anything.
LEMMA GhostStep ==
  ASSUME BaseInv, [Next]_vars
  PROVE  /\ events \subseteq events'
         /\ base' = base \/ \E p, c \in Session, n \in 0 .. MaxEvents : Fork(p, n, c)
         /\ ok' = ok \/ \E f \in Flusher : Confirm(f)
         /\ LogGrows
<1> USE DEF indexVars, ghostVars
<1>1. ASSUME NEW f \in Flusher, NEW s \in Session, AppendEvent(f, s)
      PROVE  UNCHANGED <<events, base, ok>> /\ LogGrows
  <2>1. log' = Append(log, s) /\ log \in Seq(Session)
    BY <1>1 DEF AppendEvent, BaseInv, StoreTypes, QueueOK
  <2>2. QED
    BY <1>1, <2>1 DEF AppendEvent, LogGrows
<1>2. ASSUME NEW f \in Flusher, TakeBatch(f) \/ FlushNothing(f) PROVE UNCHANGED <<events, base, ok, log>>
  BY <1>2 DEF TakeBatch, FlushNothing
<1>3. ASSUME NEW f \in Flusher, FlushFails(f) PROVE UNCHANGED <<events, base, ok, log>>
  BY <1>3 DEF FlushFails
<1>4. ASSUME NEW f \in Flusher, NEW s \in Session, OpenGroup(f, s) PROVE UNCHANGED <<events, base, ok, log>>
  BY <1>3, <1>4 DEF OpenGroup
<1>5. ASSUME NEW f \in Flusher, Roll(f) PROVE UNCHANGED <<events, base, ok, log>>
  BY <1>3, <1>5 DEF Roll
<1>6. ASSUME NEW f \in Flusher, Write(f) \/ Sync(f) \/ InsertSegment(f) PROVE UNCHANGED <<events, base, ok, log>>
  BY <1>6 DEF Write, Sync, InsertSegment
<1>7. ASSUME NEW f \in Flusher, InsertEvents(f) PROVE UNCHANGED <<base, ok, log>> /\ events \subseteq events'
  BY <1>3, <1>7 DEF InsertEvents
<1>8. ASSUME NEW f \in Flusher, Confirm(f) PROVE UNCHANGED <<base, log, events>>
  BY <1>8 DEF Confirm
<1>9. ASSUME NEW f \in Flusher, Refuse(f) \/ WriteFails(f) \/ SyncFails(f) \/ IndexFails(f)
      PROVE  UNCHANGED <<events, base, ok, log>>
  BY <1>3, <1>9 DEF Refuse, WriteFails, SyncFails, IndexFails
<1>10. ASSUME NEW p \in Session, NEW c \in Session, NEW n \in 0 .. MaxEvents, Fork(p, n, c)
       PROVE  UNCHANGED <<events, ok, log>>
  BY <1>10 DEF Fork
<1>11. ASSUME NEW s \in Session, Rebuild(s) PROVE UNCHANGED <<base, ok, log>> /\ events \subseteq events'
  BY <1>11 DEF Rebuild
<1>12. ASSUME Crash \/ UNCHANGED vars PROVE UNCHANGED <<events, base, ok, log>>
  BY <1>12 DEF Crash, vars
<1>13. log' = log => LogGrows
  BY DEF LogGrows, BaseInv, StoreTypes, QueueOK
<1>14. QED
  BY <1>1, <1>2, <1>4, <1>5, <1>6, <1>7, <1>8, <1>9, <1>10, <1>11, <1>12, <1>13 DEF Next, FlushStep

LEMMA SeenNext ==
  ASSUME BaseInv, SeenOK, [Next]_vars
  PROVE  SeenOK'
<1>1. CASE base' = base
  BY <1>1 DEF SeenOK
<1>2. ASSUME NEW p \in Session, NEW c \in Session, NEW n \in 0 .. MaxEvents, Fork(p, n, c)
      PROVE  SeenOK'
  <2> DEFINE new == [from |-> n, seen |-> {x \in Replay(p) : x.seq < n}]
  <2>1. base' = [base EXCEPT ![c] = new]
    BY <1>2, ForkIs
  <2>2. DOMAIN base = Session
    BY DEF BaseInv, StoreTypes, GhostOK
  <2>3. new.from = n /\ \A x \in new.seen : x.seq < n
    OBVIOUS
  <2> HIDE DEF new
  <2>4. base'[c] = new /\ \A s \in Session : s # c => base'[s] = base[s]
    BY <2>1, <2>2
  <2>5. QED
    BY <2>3, <2>4 DEF SeenOK
<1>3. QED
  BY <1>1, <1>2, GhostStep

LEMMA KnownNext ==
  ASSUME BaseInv, RowsOK, KeysOK, OnceOK, OkKnown, [Next]_vars
  PROVE  OkKnown'
<1>1. events \subseteq events' /\ \A e \in 1 .. Len(log) : log'[e] = log[e]
  BY GhostStep DEF LogGrows
<1>2. \A e \in 1 .. Len(log) : Known(e) => Known(e)'
  BY <1>1 DEF Known
<1>3. ok \subseteq 1 .. Len(log)
  BY DEF BaseInv, StoreTypes, QueueOK
<1>4. CASE ok' = ok
  BY <1>2, <1>3, <1>4 DEF OkKnown
<1>5. ASSUME NEW f \in Flusher, Confirm(f) PROVE OkKnown'
  <2>1. fpc[f] = "confirm" /\ ok' = ok \cup {r.ev : r \in rows[f]}
    BY <1>5 DEF Confirm
  <2>2. ASSUME NEW r \in rows[f] PROVE Known(r.ev) /\ r.ev \in 1 .. Len(log)
    <3>1. r \in events
      BY <2>1, <2>2 DEF KeysOK
    <3>2. r.sess \in Session /\ OnDisk(r) /\ r.ev \in 1 .. Len(log)
      BY <3>1 DEF RowsOK, EventsOnDisk, BaseInv, StoreTypes, IndexOK, RowOf
    <3>3. PICK k, i \in Nat : Kept(r.sess, k, i) /\ file[r.sess][k][i].ev = r.ev
      BY <3>2 DEF OnDisk
    <3>4. Rec(r.sess, k, i, r.ev)
      BY <3>3 DEF Kept, Rec
    <3>5. log[r.ev] = r.sess
      BY <3>2, <3>4 DEF OnceOK, RecordsOwn
    <3>6. QED
      BY <3>1, <3>2, <3>5 DEF Known
  <2>3. QED
    BY <1>2, <1>3, <2>1, <2>2 DEF OkKnown
<1>6. QED
  BY <1>4, <1>5, GhostStep

\* The records of a session are the complete ones in its files.
LEMMA ViewIs ==
  ASSUME BaseInv, FileInv, NEW s \in Session, NEW x
  PROVE  /\ x \in View(s) \ base[s].seen =>
              \E k, i : Rec(s, k, i, x.ev) /\ x = file[s][k][i]
         /\ \A k, i, e : Rec(s, k, i, e) /\ x = file[s][k][i] => x \in View(s)
<1>1. View(s) = base[s].seen \cup UNION {RecordSet(Clean(file[s][k])) : k \in DOMAIN file[s]}
  BY DEF View
<1>2. \A k \in DOMAIN file[s] : file[s][k] \in Seq(Item(Len(log))) /\ DOMAIN file[s][k] = 1 .. Len(file[s][k])
                                 /\ Len(file[s][k]) \in Nat
  BY FileType DEF BaseInv, StoreTypes
<1>3. ASSUME NEW k \in DOMAIN file[s], NEW i \in DOMAIN Clean(file[s][k]), x = Clean(file[s][k])[i]
      PROVE  Rec(s, k, i, x.ev) /\ x = file[s][k][i]
  <2> DEFINE q == file[s][k]
  <2>1. q \in Seq(Item(Len(log))) /\ DOMAIN q = 1 .. Len(q) /\ Len(q) \in Nat
    BY <1>2
  <2>2. /\ DOMAIN Clean(q) = 1 .. Len(Clean(q)) /\ Len(Clean(q)) <= Len(q) /\ Len(Clean(q)) \in Nat
        /\ \A j \in 1 .. Len(Clean(q)) : Clean(q)[j] = q[j] /\ q[j].ev # 0
    BY <2>1, CleanIs
  <2>3. i \in DOMAIN q /\ x = q[i] /\ q[i].ev # 0
    BY <1>3, <2>1, <2>2
  <2>4. QED
    BY <2>3 DEF Rec
<1>4. ASSUME x \in View(s) \ base[s].seen PROVE \E k, i : Rec(s, k, i, x.ev) /\ x = file[s][k][i]
  <2>1. PICK k \in DOMAIN file[s] : x \in RecordSet(Clean(file[s][k]))
    BY <1>1, <1>4
  <2>2. PICK i \in DOMAIN Clean(file[s][k]) : x = Clean(file[s][k])[i]
    BY <2>1 DEF RecordSet
  <2>3. QED
    BY <1>3, <2>2
<1>5. ASSUME NEW k, NEW i, NEW e, Rec(s, k, i, e), x = file[s][k][i] PROVE x \in View(s)
  <2> DEFINE q == file[s][k]
  <2>1. k \in DOMAIN file[s] /\ i \in DOMAIN q /\ q[i].ev # 0
    BY <1>5 DEF Rec
  <2>2. \A j \in DOMAIN q : q[j].ev = 0 => j = Len(q)
    BY <2>1 DEF FileInv, Fits, Places
  <2>3. q \in Seq(Item(Len(log)))
    BY <1>2, <2>1
  <2>4. i \in DOMAIN Clean(q)
    BY <2>1, <2>2, <2>3, CleanAtEnd
  <2>5. Clean(q)[i] = q[i]
    BY <2>3, <2>4, CleanIs
  <2>6. x \in RecordSet(Clean(q))
    BY <1>5, <2>4, <2>5 DEF RecordSet
  <2>7. QED
    BY <1>1, <2>1, <2>6
<1>6. QED
  BY <1>4, <1>5

LEMMA KeptOnce ==
  ASSUME BaseInv, FileInv, RowsOK, OnceOK, SeenOK, OkKnown
  PROVE  ConfirmedKept
<1> SUFFICES ASSUME NEW e \in ok
             PROVE  /\ Cardinality({x \in View(log[e]) \ base[log[e]].seen : x.ev = e}) = 1
                    /\ \E x \in Durable(log[e]), q \in events :
                         x.ev = e /\ q.ev = e /\ q.sess = log[e] /\ q.off = x.seq
  BY DEF ConfirmedKept
<1>1. PICK q \in events : q.ev = e /\ q.sess = log[e]
  BY DEF OkKnown, Known
<1>2. q.sess \in Session /\ OnDisk(q)
  BY DEF RowsOK, EventsOnDisk, BaseInv, StoreTypes, IndexOK, RowOf
<1> PICK s \in Session : s = q.sess
  BY <1>2
<1>3. PICK k, i \in Nat : Kept(s, k, i) /\ file[s][k][i].seq = q.off /\ file[s][k][i].ev = e
  BY <1>1, <1>2 DEF OnDisk
<1> PICK x : x = file[s][k][i]
  OBVIOUS
<1>4. x \in Durable(s) /\ x.ev = e /\ x.seq = q.off
  BY <1>3, KeptIsDurable
<1>5. Rec(s, k, i, e)
  BY <1>3 DEF Kept, Rec
<1>6. x \in View(s)
  BY <1>5, ViewIs
<1>7. x \notin base[s].seen
  <2>1. Places(s) /\ k \in DOMAIN file[s] /\ i \in DOMAIN file[s][k] /\ x.ev # 0
    BY <1>5 DEF FileInv, Fits, Rec
  <2>2. x.seq = From(s, k) + i - 1
    BY <2>1 DEF Places
  <2>3. k \in Nat \ {0} /\ i \in Nat \ {0}
    BY <2>1, FileType DEF BaseInv, StoreTypes
  <2>4. base[s].from \in Nat /\ From(s, k) \in Nat /\ From(s, k) >= base[s].from
    <3>1. base[s].from \in Nat
      BY DEF BaseInv, StoreTypes, GhostOK
    <3>2. k - 1 \in Nat /\ MaxRows \in Nat
      BY <2>3, RowsPositive
    <3>3. (k - 1) * MaxRows \in Nat
      <4> DEFINE a == k - 1
      <4>1. a \in Nat
        BY <3>2
      <4> HIDE DEF a
      <4>2. a * MaxRows \in Nat
        BY <3>2, <4>1
      <4>3. QED
        BY <4>2 DEF a
    <3> DEFINE y == (k - 1) * MaxRows
               b == base[s].from
    <3>4. From(s, k) = b + y
      BY DEF From
    <3> HIDE DEF y, b
    <3>5. b \in Nat /\ y \in Nat
      BY <3>1, <3>3 DEF y, b
    <3>6. From(s, k) \in Nat /\ From(s, k) >= b
      BY <3>4, <3>5
    <3>7. QED
      BY <3>1, <3>6 DEF b
  <2>5. ~(x.seq < base[s].from)
    <3> DEFINE a == From(s, k)
               b == base[s].from
    <3>1. a \in Nat /\ b \in Nat /\ a >= b /\ x.seq = a + i - 1 /\ i \in Nat \ {0}
      BY <2>2, <2>3, <2>4
    <3> HIDE DEF a, b
    <3>2. ~(x.seq < b)
      BY <3>1
    <3>3. QED
      BY <3>2 DEF b
  <2>6. QED
    BY <2>5 DEF SeenOK
<1>8. \A y \in View(s) \ base[s].seen : y.ev = e => y = x
  <2> SUFFICES ASSUME NEW y \in View(s) \ base[s].seen, y.ev = e PROVE y = x
    OBVIOUS
  <2>1. PICK l, j : Rec(s, l, j, e) /\ y = file[s][l][j]
    BY ViewIs
  <2>2. l = k /\ j = i
    BY <1>5, <2>1 DEF OnceOK, RecordsOnce
  <2>3. QED
    BY <2>1, <2>2
<1>9. {y \in View(s) \ base[s].seen : y.ev = e} = {x}
  BY <1>4, <1>6, <1>7, <1>8
<1>10. QED
  BY <1>1, <1>4, <1>9, FS_Singleton

StoreInv == BaseInv /\ FileInv /\ RowsOK /\ KeysOK /\ QueueOnce /\ OnceOK /\ SeenOK /\ OkKnown

LEMMA WholeInit ==
  Init => StoreInv
<1> SUFFICES ASSUME Init PROVE StoreInv
  OBVIOUS
<1>1. SeenOK /\ OkKnown /\ QueueOnce
  BY DEF Init, SeenOK, OkKnown, QueueOnce, Distinct
<1>2. QED
  BY <1>1, BaseInit, FileInit, RowsInit, KeysInit, OnceInit DEF StoreInv

LEMMA WholeNext ==
  ASSUME StoreInv, ~IoErrors, [Next]_vars
  PROVE  StoreInv'
BY BaseStep, FileStep, RowsNext, KeysNext, QueueNext, OnceNext, SeenNext, KnownNext DEF StoreInv

\* As long as writes, fsyncs and the index work, an event of a flush that
\* returned Ok is on disk for good, in exactly one record, and the index has it
\* under the same offset, whatever other flushes, forks, rebuilds and crashes do.
THEOREM ConfirmedKeptProved ==
  ASSUME ~IoErrors
  PROVE  Spec => []ConfirmedKept
<1>1. StoreInv => ConfirmedKept
  BY KeptOnce DEF StoreInv
<1>2. QED
  BY <1>1, WholeInit, WholeNext, PTL DEF Spec

-----------------------------------------------------------------------------
(* Segment rows: a segment has one row of its session, and copied rows     *)
(* lead back to one row each.                                              *)

\* Segment k of session s has one id of its own.
OwnOnce == \A i, j, s, k : Stands(i, s, k, 0) /\ Stands(j, s, k, 0) => i = j

\* An own id is in the index or the session is open; its segment has a record
\* on disk, or it is the open one.
LEMMA StandsFor ==
  ASSUME BaseInv, RowsOK, NEW i, NEW s, NEW k, Stands(i, s, k, 0)
  PROVE  /\ InIndex(i, s, k, 0) \/ cur[s] # NoState
         /\ (\E j : Kept(s, k, j)) \/ (cur[s] # NoState /\ cur[s].idx = k)
<1>1. CASE InIndex(i, s, k, 0)
  <2>1. PICK r \in segments : r.id = i /\ r.sess = s /\ r.idx = k /\ r.parent = 0
    BY <1>1 DEF InIndex
  <2>2. RowOnDisk(r)
    BY <2>1 DEF RowsOK, SegmentsOnDisk
  <2>3. QED
    BY <1>1, <2>1, <2>2 DEF RowOnDisk
<1>2. CASE InMetas(i, s, k, 0)
  <2>0. PICK f \in Flusher : \E j \in DOMAIN metas[f] : metas[f][j].sess = s /\ metas[f][j].idx = k
    BY <1>2 DEF InMetas
  <2>1. PICK j \in DOMAIN metas[f] : metas[f][j].sess = s /\ metas[f][j].idx = k
    BY <2>0
  <2>2. RowOnDisk(metas[f][j]) /\ cur[metas[f][j].sess] # NoState
    BY DEF RowsOK, MetasOnDisk, Elems
  <2>3. QED
    BY <2>1, <2>2 DEF RowOnDisk
<1>3. CASE IsOpen(i, s, k, 0)
  BY <1>3 DEF IsOpen
<1>4. QED
  BY <1>1, <1>2, <1>3 DEF Stands

LEMMA OwnKept ==
  ASSUME OwnOnce, NoNewIds
  PROVE  OwnOnce'
BY DEF OwnOnce, NoNewIds

\* A segment that has no id may get one.
LEMMA OwnNew ==
  ASSUME OwnOnce, NEW i, NEW s, NEW k, \A j : ~Stands(j, s, k, 0),
         \A j, t, l : Stands(j, t, l, 0)' => Stands(j, t, l, 0) \/ (j = i /\ t = s /\ l = k)
  PROVE  OwnOnce'
BY DEF OwnOnce

LEMMA OpenGroupOwn ==
  ASSUME BaseInv, RowsOK, OwnOnce, NEW f \in Flusher, NEW s \in Session, OpenGroup(f, s)
  PROVE  OwnOnce'
<1> DEFINE k == LastSegment(s)
           i == SegmentId(s, k)
<1>1. NoNewIds \/ (cur[s] = NoState /\ NewIdsIn({<<i, s, k, 0>>}))
  BY OpenGroupIds DEF BaseInv
<1>2. CASE NoNewIds
  BY <1>2, OwnKept
<1>3. CASE cur[s] = NoState /\ NewIdsIn({<<i, s, k, 0>>})
  <2>1. \A j, t, l : Stands(j, t, l, 0)' => Stands(j, t, l, 0) \/ (j = i /\ t = s /\ l = k)
    <3> HIDE DEF i, k
    <3>1. QED
      BY <1>3 DEF NewIdsIn
  <2>2. i = nextId \/ Stands(i, s, k, 0)
    BY SegmentIdIs DEF BaseInv, StoreTypes, Stands, InIndex
  <2>3. CASE \A j : ~Stands(j, s, k, 0)
    <3> HIDE DEF i, k
    <3>1. QED
      BY <2>1, <2>3, OwnNew
  <2>4. CASE \E j : Stands(j, s, k, 0)
    <3>1. PICK j : Stands(j, s, k, 0)
      BY <2>4
    <3>2. InIndex(j, s, k, 0)
      BY <1>3, <3>1, StandsFor
    <3>3. \E r \in OwnRows(s) : r.idx = k
      BY <3>2 DEF InIndex, OwnRows
    <3>4. Stands(i, s, k, 0)
      <4>1. HasRow(s, k) /\ i = RowFor(s, k).id
        BY <3>3 DEF HasRow, SegmentId, RowFor
      <4>2. QED
        BY <4>1, RowForIs DEF BaseInv, StoreTypes, Stands, InIndex
    <3> HIDE DEF i, k
    <3>5. NoNewIds \/ \A j1, t, l : Stands(j1, t, l, 0)' => Stands(j1, t, l, 0)
      BY <2>1, <3>4
    <3>6. QED
      BY <3>5, OwnKept DEF OwnOnce
  <2>5. QED
    BY <2>3, <2>4
<1>4. QED
  BY <1>1, <1>2, <1>3

\* The file after the open one has no record: its segment has no id yet.
LEMMA RollOwn ==
  ASSUME BaseInv, FileInv, RowsOK, OwnOnce, NEW f \in Flusher, Roll(f)
  PROVE  OwnOnce'
<1> DEFINE s == sess[f]
           k == cur[s].idx + 1
<1>1. NoNewIds \/ NewIdsIn({<<nextId, s, k, 0>>})
  BY RollIds DEF BaseInv
<1>2. CASE NoNewIds
  BY <1>2, OwnKept
<1>3. CASE NewIdsIn({<<nextId, s, k, 0>>})
  <2>1. s \in Session /\ cur[s] # NoState /\ cur[s].idx \in DOMAIN file[s]
    BY OneWriter DEF Roll, BaseInv
  <2>2. /\ DOMAIN file[s] = 1 .. Len(file[s]) /\ Len(file[s]) \in Nat /\ cur[s].idx \in Nat
        /\ \/ cur[s].idx = Len(file[s])
           \/ cur[s].idx + 1 = Len(file[s]) /\ Void(file[s][Len(file[s])])
    <3>1. DOMAIN file[s] = 1 .. Len(file[s]) /\ Len(file[s]) \in Nat
      BY <2>1, FileType DEF BaseInv, StoreTypes
    <3>2. StateFits(s)
      BY <2>1 DEF FileInv, Fits
    <3>3. QED
      BY <2>1, <3>1, <3>2 DEF StateFits
  <2>3. ASSUME NEW j, Stands(j, s, k, 0) PROVE FALSE
    <3>1. k # cur[s].idx
      BY <2>2
    <3>2. PICK i : Kept(s, k, i)
      BY <2>3, <3>1, StandsFor
    <3>3. k \in DOMAIN file[s] /\ i \in DOMAIN file[s][k] /\ file[s][k][i].ev # 0
      BY <3>2 DEF Kept
    <3>4. k = Len(file[s]) /\ Void(file[s][k])
      <4>1. k <= Len(file[s])
        BY <2>2, <3>3
      <4>2. QED
        BY <2>2, <4>1
    <3>5. QED
      BY <3>3, <3>4 DEF Void
  <2> HIDE DEF s, k
  <2>4. \A j, t, l : Stands(j, t, l, 0)' => Stands(j, t, l, 0) \/ (j = nextId /\ t = s /\ l = k)
    BY <1>3 DEF NewIdsIn
  <2>5. QED
    BY <2>3, <2>4, OwnNew
<1>4. QED
  BY <1>1, <1>2, <1>3

\* Nothing of a child exists before the fork.
LEMMA ChildIsNew ==
  ASSUME BaseInv, RowsOK, NEW c \in Session, file[c] = <<>>, cur[c] = NoState
  PROVE  (\A i, k : ~Stands(i, c, k, 0)) /\ \A r \in segments : r.sess # c
<1>1. \A k, j : ~Kept(c, k, j)
  BY DEF Kept
<1>2. ASSUME NEW i, NEW k, Stands(i, c, k, 0) PROVE FALSE
  BY <1>1, <1>2, StandsFor
<1>3. ASSUME NEW r \in segments, r.sess = c PROVE FALSE
  <2>1. CASE r.parent = 0
    BY <1>2, <1>3, <2>1 DEF Stands, InIndex
  <2>2. CASE r.parent # 0
    BY <1>3, <2>2 DEF BaseInv, ForkOK, CopiedRows
  <2>3. QED
    BY <2>1, <2>2
<1>4. QED
  BY <1>2, <1>3

LEMMA ForkOwn ==
  ASSUME BaseInv, RowsOK, OwnOnce, NEW p \in Session, NEW n \in Nat, NEW c \in Session, Fork(p, n, c)
  PROVE  OwnOnce'
<1> DEFINE last == nextId + Cardinality(Old(p, n))
<1>1. \A i, t, k : Stands(i, t, k, 0)' => Stands(i, t, k, 0) \/ (t = c /\ i = last)
  BY ForkIds, Zenon DEF BaseInv
<1>2. \A i, k : ~Stands(i, c, k, 0)
  BY ForkIs, ChildIsNew
<1> HIDE DEF last
<1>3. QED
  BY <1>1, <1>2 DEF OwnOnce

LEMMA RebuildOwn ==
  ASSUME BaseInv, RowsOK, OwnOnce, NEW s \in Session, Rebuild(s)
  PROVE  OwnOnce'
<1>1. /\ cur[s] = NoState
      /\ NewIdsIn({<<nextId + k, s, k, 0>> : k \in {l \in Filled(s) : ~HasRow(s, l)}})
  BY RebuildIs, RebuildIds DEF BaseInv
<1>2. \A j, t, k : Stands(j, t, k, 0)' => Stands(j, t, k, 0) \/ (j = nextId + k /\ t = s /\ ~HasRow(s, k))
  BY <1>1 DEF NewIdsIn
<1>3. ASSUME NEW j, NEW k, Stands(j, s, k, 0) PROVE HasRow(s, k)
  <2>1. InIndex(j, s, k, 0)
    BY <1>1, <1>3, StandsFor
  <2>2. QED
    BY <2>1 DEF InIndex, HasRow, OwnRows
<1>4. QED
  BY <1>2, <1>3 DEF OwnOnce

LEMMA OwnNext ==
  ASSUME BaseInv, FileInv, RowsOK, OwnOnce, [Next]_vars
  PROVE  OwnOnce'
<1> USE DEF BaseInv
<1>0. ASSUME UNCHANGED <<segments, cur, metas>> PROVE OwnOnce'
  <2>1. NoNewIds
    BY <1>0 DEF NoNewIds, Stands, InIndex, InMetas, IsOpen
  <2>2. QED
    BY <2>1, OwnKept
<1>1. ASSUME NEW f \in Flusher, NEW s \in Session, AppendEvent(f, s) PROVE OwnOnce'
  BY <1>0, <1>1 DEF AppendEvent, indexVars
<1>2. ASSUME NEW f \in Flusher, TakeBatch(f) \/ FlushNothing(f) \/ Write(f) PROVE OwnOnce'
  BY <1>0, <1>2 DEF TakeBatch, FlushNothing, Write, indexVars, memVars
<1>3. ASSUME NEW f \in Flusher, FlushFails(f) PROVE OwnOnce'
  <2>1. /\ UNCHANGED <<cur, segments>> /\ metas' = [metas EXCEPT ![f] = <<>>]
    BY <1>3 DEF FlushFails, indexVars
  <2>2. \A g \in Flusher : \A j \in DOMAIN metas'[g] : j \in DOMAIN metas[g] /\ metas'[g] = metas[g]
    BY <2>1 DEF StoreTypes, FlushOK
  <2>3. NoNewIds
    BY <2>1, <2>2 DEF NoNewIds, Stands, InIndex, InMetas, IsOpen
  <2>4. QED
    BY <2>3, OwnKept
<1>4. ASSUME NEW f \in Flusher, NEW s \in Session, OpenGroup(f, s) PROVE OwnOnce'
  BY <1>4, OpenGroupOwn
<1>5. ASSUME NEW f \in Flusher, Roll(f) PROVE OwnOnce'
  BY <1>5, RollOwn
<1>6. ASSUME NEW f \in Flusher, Sync(f) \/ InsertSegment(f) PROVE OwnOnce'
  BY <1>6, SyncIds, InsertSegmentIds, OwnKept
<1>7. ASSUME NEW f \in Flusher, InsertEvents(f) PROVE OwnOnce'
  BY <1>0, <1>3, <1>7 DEF InsertEvents, memVars
<1>8. ASSUME NEW f \in Flusher, Confirm(f) PROVE OwnOnce'
  BY <1>0, <1>8 DEF Confirm, indexVars
<1>9. ASSUME NEW f \in Flusher, Refuse(f) \/ WriteFails(f) \/ SyncFails(f) \/ IndexFails(f) PROVE OwnOnce'
  BY <1>3, <1>9 DEF Refuse, WriteFails, SyncFails, IndexFails
<1>10. ASSUME NEW p \in Session, NEW c \in Session, NEW n \in 0 .. MaxEvents, Fork(p, n, c) PROVE OwnOnce'
  <2>1. n \in Nat
    BY SessionStoreAssumption
  <2>2. QED
    BY <1>10, <2>1, ForkOwn
<1>11. ASSUME NEW s \in Session, Rebuild(s) PROVE OwnOnce'
  BY <1>11, RebuildOwn
<1>12. ASSUME Crash PROVE OwnOnce'
  BY <1>12, CrashIds, OwnKept
<1>13. ASSUME UNCHANGED vars PROVE OwnOnce'
  BY <1>0, <1>13 DEF vars, flushVars, indexVars, memVars
<1>14. QED
  BY <1>1, <1>2, <1>4, <1>5, <1>6, <1>7, <1>8, <1>9, <1>10, <1>11, <1>12, <1>13 DEF Next, FlushStep

RowIds == {r.id : r \in segments}

\* g leads from a row to the one without a parent at the end of its chain, and
\* from no two rows of a session to the same.
Rooted(g) ==
  /\ \A r \in segments : r.parent = 0 => g[r.id] = r.id
  /\ \A r \in segments : r.parent # 0 =>
       r.parent < r.id /\ r.parent \in RowIds /\ g[r.id] = g[r.parent]
  /\ \A r \in segments : \E q \in segments : q.parent = 0 /\ q.id = g[r.id]
  /\ \A r, q \in segments : r.sess = q.sess /\ g[r.id] = g[q.id] => r.id = q.id

Forest == \E g : Rooted(g)

\* The rows stay, but for where they end, and own ones with new ids may come.
SameRow(x, y) == x.id = y.id /\ x.sess = y.sess /\ x.idx = y.idx /\ x.parent = y.parent
OwnRowsCome ==
  /\ \A r \in segments : \E q \in segments' : SameRow(r, q)
  /\ \A q \in segments' : (\E r \in segments : SameRow(r, q)) \/ (q.parent = 0 /\ q.id \notin RowIds)

\* The chains lead where they led before the step.
RootsKept == \E g, h : Rooted(g) /\ Rooted(h)' /\ \A r \in segments : h[r.id] = g[r.id]

LEMMA ForestGrows ==
  ASSUME Forest, OwnRowsCome
  PROVE  RootsKept
<1>1. PICK g : Rooted(g)
  BY DEF Forest
<1>2. PICK Ids : Ids = RowIds
  OBVIOUS
<1>3. PICK Jds : Jds = RowIds'
  OBVIOUS
<1>4. PICK h : h = [i \in Jds |-> IF i \in Ids THEN g[i] ELSE i]
  OBVIOUS
<1>5. ASSUME NEW q \in segments' PROVE q.id \in Jds
  BY <1>3 DEF RowIds
<1>6. ASSUME NEW q \in segments', NEW r \in segments, SameRow(r, q) PROVE h[q.id] = g[r.id] /\ q.id = r.id
  <2>1. q.id = r.id /\ r.id \in Ids
    BY <1>2, <1>6 DEF SameRow, RowIds
  <2>2. QED
    BY <1>4, <1>5, <2>1
<1>7. ASSUME NEW q \in segments', q.id \notin Ids PROVE h[q.id] = q.id
  BY <1>4, <1>5, <1>7
<1>8. \A q \in segments' : (\E r \in segments : SameRow(r, q)) \/ (q.parent = 0 /\ q.id \notin Ids)
  BY <1>2 DEF OwnRowsCome
<1>9. Ids \subseteq Jds
  BY <1>2, <1>3 DEF OwnRowsCome, SameRow, RowIds
<1>10. \A q \in segments' : q.parent = 0 => h[q.id] = q.id
  BY <1>1, <1>6, <1>7, <1>8 DEF Rooted, SameRow
<1>11. ASSUME NEW q \in segments', q.parent # 0
       PROVE  q.parent < q.id /\ q.parent \in Jds /\ h[q.id] = h[q.parent]
  <2>1. PICK r \in segments : SameRow(r, q)
    BY <1>8, <1>11
  <2>2. r.parent < r.id /\ r.parent \in Ids /\ g[r.id] = g[r.parent] /\ r.parent = q.parent
    BY <1>1, <1>2, <1>11, <2>1 DEF Rooted, SameRow
  <2>3. h[q.parent] = g[r.parent]
    BY <1>4, <1>9, <2>2
  <2>4. QED
    BY <1>6, <1>9, <2>1, <2>2, <2>3
<1>12. ASSUME NEW q \in segments' PROVE \E o \in segments' : o.parent = 0 /\ o.id = h[q.id]
  <2>1. CASE q.parent = 0
    BY <1>10, <2>1
  <2>2. CASE q.parent # 0
    <3>1. PICK r \in segments : SameRow(r, q)
      BY <1>8, <2>2
    <3>2. PICK x \in segments : x.parent = 0 /\ x.id = g[r.id]
      BY <1>1 DEF Rooted
    <3>3. PICK o \in segments' : SameRow(x, o)
      BY DEF OwnRowsCome
    <3>4. QED
      BY <1>6, <3>1, <3>2, <3>3 DEF SameRow
  <2>3. QED
    BY <2>1, <2>2
<1>13. ASSUME NEW r \in segments PROVE g[r.id] \in Ids
  BY <1>1, <1>2 DEF Rooted, RowIds
<1>14. ASSUME NEW q \in segments', NEW o \in segments', q.sess = o.sess, h[q.id] = h[o.id] PROVE q.id = o.id
  <2>1. CASE q.id \notin Ids /\ o.id \notin Ids
    BY <1>7, <1>14, <2>1
  <2>2. CASE \E r, x \in segments : SameRow(r, q) /\ SameRow(x, o)
    <3>1. PICK r \in segments, x \in segments : SameRow(r, q) /\ SameRow(x, o)
      BY <2>2
    <3>2. g[r.id] = g[x.id] /\ r.sess = x.sess /\ r.id = q.id /\ x.id = o.id
      BY <1>6, <1>14, <3>1 DEF SameRow
    <3>3. QED
      BY <1>1, <3>2 DEF Rooted
  <2>3. ASSUME NEW y \in segments', NEW z \in segments', NEW r \in segments, SameRow(r, y), z.id \notin Ids
        PROVE  h[y.id] # h[z.id]
    BY <1>6, <1>7, <1>13, <2>3
  <2>4. QED
    BY <1>8, <1>14, <2>1, <2>2, <2>3
<1>15. Rooted(h)'
  BY <1>3, <1>10, <1>11, <1>12, <1>14 DEF Rooted
<1>16. \A r \in segments : h[r.id] = g[r.id]
  BY <1>2, <1>4, <1>9 DEF RowIds
<1>17. QED
  BY <1>1, <1>15, <1>16 DEF RootsKept

LEMMA InsertSegmentComes ==
  ASSUME BaseInv, NEW f \in Flusher, InsertSegment(f)
  PROVE  OwnRowsCome
<1>1. PICK m \in SegmentRow :
           /\ m = metas[f][1] /\ 1 \in DOMAIN metas[f]
           /\ segments' = {r \in segments : r.id # m.id} \cup
                (IF \E r \in segments : r.id = m.id
                 THEN {[r EXCEPT !.end = m.end] : r \in {r \in segments : r.id = m.id}} ELSE {m})
  BY InsertSegmentIs DEF BaseInv
<1>2. m.parent = 0
  BY <1>1 DEF BaseInv, IdsOK, MetasOwn
<1>3. ASSUME NEW r \in segments PROVE SameRow(r, r) /\ SameRow(r, [r EXCEPT !.end = m.end])
  <2>1. r \in SegmentRow
    BY DEF BaseInv, StoreTypes, IndexOK
  <2>2. QED
    BY <2>1 DEF SameRow, SegmentRow
<1>4. CASE \E r \in segments : r.id = m.id
  BY <1>1, <1>3, <1>4 DEF OwnRowsCome
<1>5. CASE ~\E r \in segments : r.id = m.id
  <2>1. segments' = {r \in segments : r.id # m.id} \cup {m} /\ m.id \notin RowIds
    BY <1>1, <1>5 DEF RowIds
  <2>2. \A r \in segments : r \in segments'
    BY <1>5, <2>1
  <2>3. QED
    BY <1>2, <1>3, <2>1, <2>2 DEF OwnRowsCome
<1>6. QED
  BY <1>4, <1>5

LEMMA RebuildComes ==
  ASSUME BaseInv, NEW s \in Session, Rebuild(s)
  PROVE  OwnRowsCome
<1>1. segments' = {r \in segments : \A k \in Filled(s) : r.id # NewId(s, k)} \cup {NewRow(s, k) : k \in Filled(s)}
  BY RebuildIs
<1>2. \A r \in segments : SameRow(r, r) /\ r.id \in Nat /\ r.id < nextId /\ nextId \in Nat
  <2> SUFFICES ASSUME NEW r \in segments PROVE SameRow(r, r) /\ r.id \in Nat /\ r.id < nextId /\ nextId \in Nat
    OBVIOUS
  <2>1. Stands(r.id, r.sess, r.idx, r.parent)
    BY DEF Stands, InIndex
  <2>2. QED
    BY <2>1 DEF SameRow, BaseInv, IdsOK, IdsBelow, StoreTypes, IndexOK, SegmentRow
<1>3. ASSUME NEW k \in Filled(s)
      PROVE  /\ NewRow(s, k).parent = 0
             /\ HasRow(s, k) => SameRow(RowFor(s, k), NewRow(s, k)) /\ RowFor(s, k) \in segments
                                /\ NewId(s, k) = RowFor(s, k).id
             /\ ~HasRow(s, k) => NewRow(s, k).id \notin RowIds /\ \A r \in segments : r.id # NewId(s, k)
  <2>1. NewRow(s, k).id = NewId(s, k) /\ NewRow(s, k).sess = s /\ NewRow(s, k).idx = k /\ NewRow(s, k).parent = 0
    BY DEF NewRow
  <2>2. CASE HasRow(s, k)
    <3>1. /\ RowFor(s, k) \in segments /\ RowFor(s, k).sess = s /\ RowFor(s, k).parent = 0
          /\ RowFor(s, k).idx = k /\ NewId(s, k) = RowFor(s, k).id
      BY <2>2, RowForIs DEF BaseInv, StoreTypes, NewId
    <3>2. QED
      BY <2>1, <2>2, <3>1 DEF SameRow
  <2>3. CASE ~HasRow(s, k)
    <3>1. NewId(s, k) = nextId + k /\ k \in Nat
      BY <2>3, FilledRecords DEF NewId, BaseInv
    <3>2. ASSUME NEW r \in segments PROVE r.id # NewId(s, k)
      BY <1>2, <3>1
    <3>3. QED
      BY <2>1, <2>3, <3>2 DEF RowIds
  <2>4. QED
    BY <2>2, <2>3
<1>4. ASSUME NEW r \in segments PROVE \E q \in segments' : SameRow(r, q)
  <2>1. CASE \A k \in Filled(s) : r.id # NewId(s, k)
    BY <1>1, <1>2, <2>1
  <2>2. CASE \E k \in Filled(s) : r.id = NewId(s, k)
    <3>1. PICK k \in Filled(s) : r.id = NewId(s, k)
      BY <2>2
    <3>2. RowFor(s, k) = r /\ SameRow(RowFor(s, k), NewRow(s, k))
      BY <1>3, <3>1 DEF BaseInv, IdsOK, RowsUnique
    <3>3. QED
      BY <1>1, <3>2
  <2>3. QED
    BY <2>1, <2>2
<1>5. ASSUME NEW q \in segments' PROVE (\E r \in segments : SameRow(r, q)) \/ (q.parent = 0 /\ q.id \notin RowIds)
  BY <1>1, <1>2, <1>3
<1>6. QED
  BY <1>4, <1>5 DEF OwnRowsCome

\* A fork copies each row of the prefix once, for a session that had none.
LEMMA ForkForest ==
  ASSUME BaseInv, RowsOK, Forest, NEW p \in Session, NEW n \in Nat, NEW c \in Session, Fork(p, n, c)
  PROVE  \E g, h : /\ Rooted(g) /\ Rooted(h)' /\ \A r \in segments : h[r.id] = g[r.id]
                   /\ \A r \in Old(p, n) : h[CopyId(p, n, r)] = g[r.id]
<1>1. PICK g : Rooted(g)
  BY DEF Forest
<1>2. PICK O : O = Old(p, n)
  OBVIOUS
<1>3. segments' = segments \cup Copy(p, n, c) /\ file[c] = <<>> /\ cur[c] = NoState
  BY ForkIs
<1>4. \A r \in segments : r.sess # c
  BY <1>3, ChildIsNew
<1>5. /\ O \subseteq segments /\ \A r \in O : r.sess = p
      /\ \A r \in O : CopyId(p, n, r) \in Nat /\ nextId <= CopyId(p, n, r)
      /\ \A r, q \in O : CopyId(p, n, r) = CopyId(p, n, q) => r = q
  BY <1>2, CopyIdIs DEF Old, BaseInv
<1>6. \A r \in segments : r.id \in Nat /\ r.id < nextId /\ 0 < r.id /\ nextId \in Nat
  <2> SUFFICES ASSUME NEW r \in segments PROVE r.id \in Nat /\ r.id < nextId /\ 0 < r.id /\ nextId \in Nat
    OBVIOUS
  <2>1. Stands(r.id, r.sess, r.idx, r.parent)
    BY DEF Stands, InIndex
  <2>2. QED
    BY <2>1 DEF BaseInv, IdsOK, IdsBelow, StoreTypes, IndexOK, SegmentRow
<1>7. PICK id : id = [r \in O |-> CopyId(p, n, r)]
  OBVIOUS
<1>8. \A x \in Copy(p, n, c) : \E r \in O : x.id = id[r] /\ x.sess = c /\ x.parent = r.id
  <2> SUFFICES ASSUME NEW x \in Copy(p, n, c)
               PROVE  \E r \in O : x.id = id[r] /\ x.sess = c /\ x.parent = r.id
    OBVIOUS
  <2>1. PICK r \in Old(p, n) : x = CopyOf(p, n, c, r)
    BY DEF Copy
  <2>2. x.id = CopyId(p, n, r) /\ x.sess = c /\ x.parent = r.id
    BY <2>1 DEF CopyOf
  <2>3. r \in O /\ id[r] = CopyId(p, n, r)
    BY <1>2, <1>7
  <2>4. QED
    BY <2>2, <2>3
<1>9. /\ \A r \in O, q \in segments : id[r] # q.id /\ q.id < id[r]
      /\ \A r, q \in O : id[r] = id[q] => r = q
  <2>1. ASSUME NEW r \in O, NEW q \in segments PROVE id[r] # q.id /\ q.id < id[r]
    <3>1. id[r] \in Nat /\ nextId <= id[r]
      BY <1>5, <1>7
    <3>2. QED
      BY <1>6, <3>1
  <2>2. QED
    BY <1>5, <1>7, <2>1
<1>10. PICK Ids : Ids = RowIds
  OBVIOUS
<1>11. PICK h : h = [i \in Ids \cup {id[r] : r \in O} |->
                       IF i \in Ids THEN g[i] ELSE g[(CHOOSE r \in O : id[r] = i).id]]
  OBVIOUS
<1>12. \A r \in segments : h[r.id] = g[r.id] /\ r.id \in Ids
  BY <1>10, <1>11 DEF RowIds
<1>13. ASSUME NEW r \in O PROVE h[id[r]] = g[r.id]
  <2>1. id[r] \notin Ids
    BY <1>9, <1>10 DEF RowIds
  <2>2. (CHOOSE q \in O : id[q] = id[r]) = r
    BY <1>9
  <2>3. QED
    BY <1>11, <2>1, <2>2
<1>14. Ids \subseteq RowIds'
  BY <1>3, <1>10 DEF RowIds
<1>15. ASSUME NEW x \in segments'
       PROVE  \/ x \in segments /\ h[x.id] = g[x.id]
              \/ \E r \in O : x.id = id[r] /\ x.sess = c /\ x.parent = r.id /\ h[x.id] = g[r.id]
  BY <1>3, <1>8, <1>12, <1>13
<1>16. ASSUME NEW x \in segments', x.parent = 0 PROVE h[x.id] = x.id
  BY <1>1, <1>5, <1>6, <1>15, <1>16 DEF Rooted
<1>17. ASSUME NEW x \in segments', x.parent # 0
       PROVE  x.parent < x.id /\ x.parent \in RowIds' /\ h[x.id] = h[x.parent]
  <2>1. CASE x \in segments /\ h[x.id] = g[x.id]
    <3>1. x.parent < x.id /\ x.parent \in Ids /\ g[x.id] = g[x.parent]
      BY <1>1, <1>10, <1>17, <2>1 DEF Rooted
    <3>2. QED
      BY <1>11, <1>14, <2>1, <3>1
  <2>2. CASE \E r \in O : x.id = id[r] /\ x.sess = c /\ x.parent = r.id /\ h[x.id] = g[r.id]
    BY <1>5, <1>9, <1>12, <1>14, <2>2
  <2>3. QED
    BY <1>15, <2>1, <2>2
<1>18. ASSUME NEW x \in segments' PROVE \E q \in segments' : q.parent = 0 /\ q.id = h[x.id]
  <2>1. PICK r \in segments : h[x.id] = g[r.id]
    BY <1>5, <1>15
  <2>2. PICK q \in segments : q.parent = 0 /\ q.id = g[r.id]
    BY <1>1 DEF Rooted
  <2>3. QED
    BY <1>3, <2>1, <2>2
<1>19. ASSUME NEW x \in segments', NEW y \in segments', x.sess = y.sess, h[x.id] = h[y.id] PROVE x.id = y.id
  <2>1. CASE x \in segments /\ y \in segments
    BY <1>1, <1>12, <1>19, <2>1 DEF Rooted
  <2>2. CASE x \notin segments \/ y \notin segments
    <3>1. x \notin segments /\ y \notin segments
      BY <1>4, <1>15, <1>19, <2>2
    <3>2. PICK r \in O : x.id = id[r] /\ h[x.id] = g[r.id]
      BY <1>15, <3>1
    <3>3. PICK q \in O : y.id = id[q] /\ h[y.id] = g[q.id]
      BY <1>15, <3>1
    <3>4. r.id = q.id
      BY <1>1, <1>5, <1>19, <3>2, <3>3 DEF Rooted
    <3>5. r = q
      BY <1>5, <3>4 DEF BaseInv, IdsOK, RowsUnique
    <3>6. QED
      BY <3>2, <3>3, <3>5
  <2>3. QED
    BY <2>1, <2>2
<1>20. Rooted(h)'
  BY <1>16, <1>17, <1>18, <1>19 DEF Rooted
<1>21. \A r \in Old(p, n) : h[CopyId(p, n, r)] = g[r.id]
  BY <1>2, <1>7, <1>13
<1>22. QED
  BY <1>1, <1>12, <1>20, <1>21

LEMMA ForestNext ==
  ASSUME BaseInv, RowsOK, Forest, [Next]_vars
  PROVE  Forest'
<1>0. ASSUME segments' = segments PROVE Forest'
  BY <1>0 DEF Forest, Rooted, RowIds
<1>1. ASSUME NEW f \in Flusher, FlushFails(f) PROVE segments' = segments
  BY <1>1 DEF FlushFails, indexVars
<1>2. ASSUME NEW f \in Flusher, NEW s \in Session, AppendEvent(f, s) \/ OpenGroup(f, s) PROVE segments' = segments
  BY <1>1, <1>2 DEF AppendEvent, OpenGroup, indexVars
<1>3. ASSUME NEW f \in Flusher, TakeBatch(f) \/ FlushNothing(f) \/ Roll(f) \/ Write(f) \/ Sync(f)
      PROVE  segments' = segments
  BY <1>1, <1>3 DEF TakeBatch, FlushNothing, Roll, Write, Sync, indexVars
<1>4. ASSUME NEW f \in Flusher, InsertSegment(f) PROVE Forest'
  BY <1>4, InsertSegmentComes, ForestGrows DEF RootsKept, Forest
<1>5. ASSUME NEW f \in Flusher, InsertEvents(f) \/ Confirm(f) PROVE segments' = segments
  BY <1>1, <1>5 DEF InsertEvents, Confirm, indexVars
<1>6. ASSUME NEW f \in Flusher, Refuse(f) \/ WriteFails(f) \/ SyncFails(f) \/ IndexFails(f) PROVE segments' = segments
  BY <1>1, <1>6 DEF Refuse, WriteFails, SyncFails, IndexFails
<1>7. ASSUME NEW p \in Session, NEW c \in Session, NEW n \in 0 .. MaxEvents, Fork(p, n, c) PROVE Forest'
  <2>1. n \in Nat
    BY SessionStoreAssumption
  <2>2. QED
    BY <1>7, <2>1, ForkForest DEF Forest
<1>8. ASSUME NEW s \in Session, Rebuild(s) PROVE Forest'
  BY <1>8, RebuildComes, ForestGrows DEF RootsKept, Forest
<1>9. ASSUME Crash \/ UNCHANGED vars PROVE segments' = segments
  BY <1>9 DEF Crash, vars, indexVars
<1>10. QED
  BY <1>0, <1>2, <1>3, <1>4, <1>5, <1>6, <1>7, <1>8, <1>9 DEF Next, FlushStep

\* The recursive function of Root.
RowOfId(i) == CHOOSE q \in segments : q.id = i
Follows(F) ==
  F = [i \in RowIds |-> IF RowOfId(i).parent = 0 THEN RowOfId(i) ELSE F[RowOfId(i).parent]]

LEMMA RootUnfolds ==
  \A r : Root(r) = (CHOOSE F : Follows(F))[r.id]
BY DEF Root, Follows, RowOfId, RowIds

\* Such a function exists, and it goes where the chains of copies lead.
LEMMA RootIs ==
  ASSUME BaseInv, NEW g, Rooted(g), NEW r \in segments
  PROVE  Root(r) \in segments /\ Root(r).parent = 0 /\ Root(r).id = g[r.id]
<1>1. \A q \in segments : RowOfId(q.id) = q /\ q.id \in Nat /\ q.id \in RowIds
  BY DEF RowOfId, RowIds, BaseInv, IdsOK, RowsUnique, StoreTypes, IndexOK, SegmentRow
<1>2. \A i \in RowIds : RowOfId(i) \in segments /\ RowOfId(i).id = i /\ i \in Nat
  BY <1>1 DEF RowIds
<1>3. \A i \in RowIds : g[i] \in RowIds /\ RowOfId(g[i]).parent = 0
  <2> SUFFICES ASSUME NEW i \in RowIds PROVE g[i] \in RowIds /\ RowOfId(g[i]).parent = 0
    OBVIOUS
  <2>1. PICK q \in segments : q.parent = 0 /\ q.id = g[i]
    BY <1>2 DEF Rooted
  <2>2. QED
    BY <1>1, <2>1
<1>4. \A i \in RowIds : RowOfId(i).parent = 0 => g[i] = i
  BY <1>2 DEF Rooted
<1>5. \A i \in RowIds : RowOfId(i).parent # 0 =>
        RowOfId(i).parent < i /\ RowOfId(i).parent \in RowIds /\ g[i] = g[RowOfId(i).parent]
  BY <1>2 DEF Rooted
<1> DEFINE E == [i \in RowIds |-> RowOfId(g[i])]
<1>6. Follows(E)
  <2> DEFINE e(i) == IF RowOfId(i).parent = 0 THEN RowOfId(i) ELSE E[RowOfId(i).parent]
  <2>1. ASSUME NEW i \in RowIds PROVE RowOfId(g[i]) = e(i)
    <3>1. CASE RowOfId(i).parent = 0
      BY <1>4, <3>1
    <3>2. CASE RowOfId(i).parent # 0
      BY <1>5, <3>2
    <3>3. QED
      BY <3>1, <3>2
  <2>2. E = [i \in RowIds |-> e(i)]
    BY <2>1
  <2>3. QED
    BY <2>2 DEF Follows
<1> DEFINE G == CHOOSE F : Follows(F)
<1>7. Follows(G)
  <2> HIDE DEF E
  <2>1. QED
    BY <1>6
<1> HIDE DEF G
<1>8. \A i \in RowIds : G[i] = IF RowOfId(i).parent = 0 THEN RowOfId(i) ELSE G[RowOfId(i).parent]
  BY <1>7 DEF Follows
<1> DEFINE B == {i \in RowIds : G[i] # RowOfId(g[i])}
<1>9. B = {}
  <2> SUFFICES ASSUME B # {} PROVE FALSE
    OBVIOUS
  <2>1. B \in SUBSET Nat
    BY <1>2
  <2>2. PICK m \in B : \A i \in B : m <= i
    <3> HIDE DEF B
    <3>1. QED
      BY <2>1, LeastNumber
  <2>3. m \in RowIds /\ m \in Nat /\ G[m] # RowOfId(g[m])
    BY <1>2
  <2>4. CASE RowOfId(m).parent = 0
    BY <1>4, <1>8, <2>3, <2>4
  <2>5. CASE RowOfId(m).parent # 0
    <3> DEFINE o == RowOfId(m).parent
    <3>1. o < m /\ o \in RowIds /\ g[m] = g[o] /\ G[m] = G[o]
      BY <1>5, <1>8, <2>3, <2>5
    <3> HIDE DEF o
    <3>2. o \in Nat
      BY <1>2, <3>1
    <3>3. o \notin B
      <4> HIDE DEF B
      <4>1. QED
        BY <2>2, <2>3, <3>1, <3>2
    <3>4. QED
      BY <2>3, <3>1, <3>3
  <2>6. QED
    BY <2>4, <2>5
<1>10. Root(r) = RowOfId(g[r.id])
  BY <1>1, <1>9, RootUnfolds DEF G
<1>11. QED
  BY <1>1, <1>2, <1>3, <1>10

\* What a cursor returns is a record of the file its chain leads to.
LEMMA CursorIs ==
  ASSUME BaseInv, FileInv, RowsOK, NEW g, Rooted(g), NEW r \in segments, NEW x \in RecordSet(Cursor(r))
  PROVE  \E i : Rec(Root(r).sess, Root(r).idx, i, x.ev)
<1> PICK R : R = Root(r)
  OBVIOUS
<1>1. R \in segments /\ R.parent = 0 /\ R.sess \in Session
  BY RootIs DEF BaseInv, StoreTypes, IndexOK, SegmentRow
<1>2. PICK s \in Session : s = R.sess
  BY <1>1
<1>3. PICK k : k = R.idx
  OBVIOUS
<1>4. k \in DOMAIN file[s]
  BY <1>1, <1>2, <1>3 DEF RowsOK, SegmentsOnDisk, RowOnDisk, Kept
<1>5. file[s][k] \in Seq(Item(Len(log)))
  BY <1>4, FileType DEF BaseInv, StoreTypes
<1> DEFINE c == Clean(file[s][k])
<1>6. /\ c \in Seq(Item(Len(log))) /\ Len(c) \in Nat /\ DOMAIN c = 1 .. Len(c) /\ Len(c) <= Len(file[s][k])
      /\ \A i \in 1 .. Len(c) : c[i] = file[s][k][i] /\ file[s][k][i].ev # 0
  BY <1>5, CleanIs
<1>7. \E i \in DOMAIN c : x = c[i]
  <2> DEFINE over == {i \in DOMAIN c : c[i].seq > r.end}
  <2>1. Cursor(r) = IF over = {} THEN c ELSE SubSeq(c, 1, Min(over) - 1)
    BY <1>2, <1>3 DEF Cursor
  <2>2. over \in SUBSET Nat /\ over \in SUBSET DOMAIN c
    BY <1>6
  <2> HIDE DEF over
  <2>3. CASE over = {}
    BY <2>1, <2>3 DEF RecordSet
  <2>4. CASE over # {}
    <3>1. Min(over) \in over
      BY <2>2, <2>4, MinIs
    <3>2. PICK m : m = Min(over) - 1
      OBVIOUS
    <3> HIDE DEF c
    <3>3. m \in 0 .. Len(c)
      <4>1. Min(over) \in 1 .. Len(c) /\ Len(c) \in Nat
        BY <1>6, <2>2, <3>1
      <4>2. QED
        BY <3>2, <4>1
    <3>4. DOMAIN SubSeq(c, 1, m) = 1 .. m /\ \A i \in 1 .. m : SubSeq(c, 1, m)[i] = c[i]
      BY <1>6, <3>3
    <3>5. PICK i \in DOMAIN SubSeq(c, 1, m) : x = SubSeq(c, 1, m)[i]
      BY <2>1, <2>4, <3>2 DEF RecordSet
    <3>6. i \in DOMAIN c /\ x = c[i]
      BY <1>6, <3>3, <3>4, <3>5
    <3>7. QED
      BY <3>6
  <2>5. QED
    BY <2>3, <2>4
<1>8. PICK i \in DOMAIN c : x = c[i]
  BY <1>7
<1>9. i \in DOMAIN file[s][k] /\ x = file[s][k][i] /\ x.ev # 0
  <2>1. DOMAIN file[s][k] = 1 .. Len(file[s][k]) /\ Len(file[s][k]) \in Nat
    BY <1>5
  <2>2. QED
    BY <1>6, <1>8, <2>1
<1>10. Rec(s, k, i, x.ev)
  BY <1>4, <1>9 DEF Rec
<1>11. QED
  BY <1>2, <1>3, <1>10

\* Two cursors of a session with one record would share its segment, hence its
\* row, hence be one.
LEMMA ReadOnce ==
  BaseInv /\ FileInv /\ RowsOK /\ OnceOK /\ OwnOnce /\ Forest => ReplayOnce
<1> SUFFICES ASSUME BaseInv, FileInv, RowsOK, OnceOK, OwnOnce, Forest,
                    NEW s \in Session, NEW x \in Replay(s)
             PROVE  Copies(s, x) = 1
  BY DEF ReplayOnce
<1> DEFINE Reads(r) == r \in segments /\ r.sess = s /\ x \in RecordSet(Cursor(r))
<1>1. PICK r : Reads(r)
  BY DEF Replay
<1>2. PICK g : Rooted(g)
  BY DEF Forest
<1>3. ASSUME NEW q, Reads(q) PROVE q = r
  <2>1. PICK R : R = Root(r)
    OBVIOUS
  <2>2. PICK Q : Q = Root(q)
    OBVIOUS
  <2>3. /\ R \in segments /\ R.parent = 0 /\ R.id = g[r.id]
        /\ Q \in segments /\ Q.parent = 0 /\ Q.id = g[q.id]
    BY <1>1, <1>2, <1>3, <2>1, <2>2, RootIs
  <2>4. PICK i : Rec(R.sess, R.idx, i, x.ev)
    BY <1>1, <1>2, <2>1, CursorIs
  <2>5. PICK j : Rec(Q.sess, Q.idx, j, x.ev)
    BY <1>2, <1>3, <2>2, CursorIs
  <2>6. R.sess \in Session /\ Q.sess \in Session
    BY <2>3 DEF BaseInv, StoreTypes, IndexOK, SegmentRow
  <2>7. R.sess = Q.sess
    BY <2>4, <2>5, <2>6 DEF OnceOK, RecordsOwn
  <2>8. R.idx = Q.idx
    BY <2>4, <2>5, <2>6, <2>7 DEF OnceOK, RecordsOnce
  <2>9. R.id = Q.id
    <3>1. Stands(R.id, R.sess, R.idx, 0) /\ Stands(Q.id, Q.sess, Q.idx, 0)
      BY <2>3 DEF Stands, InIndex
    <3>2. QED
      BY <2>7, <2>8, <3>1 DEF OwnOnce
  <2>10. q.id = r.id
    BY <1>1, <1>2, <1>3, <2>3, <2>9 DEF Rooted
  <2>11. QED
    BY <1>1, <1>3, <2>10 DEF BaseInv, IdsOK, RowsUnique
<1>4. {q \in segments : q.sess = s /\ x \in RecordSet(Cursor(q))} = {r}
  BY <1>1, <1>3
<1>5. QED
  BY <1>4, FS_Singleton DEF Copies

ReadInv == StoreInv /\ OwnOnce /\ Forest

LEMMA ReadInit ==
  Init => ReadInv
<1> SUFFICES ASSUME Init PROVE ReadInv
  OBVIOUS
<1>1. segments = {} /\ metas = [f \in Flusher |-> <<>>] /\ cur = [s \in Session |-> NoState]
  BY DEF Init
<1>2. OwnOnce
  BY <1>1 DEF OwnOnce, Stands, InIndex, InMetas, IsOpen
<1>3. Forest
  BY <1>1 DEF Forest, Rooted
<1>4. QED
  BY <1>2, <1>3, WholeInit DEF ReadInv

LEMMA ReadNext ==
  ASSUME ReadInv, ~IoErrors, [Next]_vars
  PROVE  ReadInv'
<1>1. StoreInv'
  BY WholeNext DEF ReadInv
<1>2. OwnOnce' /\ Forest'
  BY OwnNext, ForestNext DEF ReadInv, StoreInv
<1>3. QED
  BY <1>1, <1>2 DEF ReadInv

\* As long as writes, fsyncs and the index work, replay returns no record
\* twice, however long the chains of forks are and whatever crashes and
\* rebuilds come in between.
THEOREM ReplayOnceProved ==
  ASSUME ~IoErrors
  PROVE  Spec => []ReplayOnce
<1>1. ReadInv => ReplayOnce
  BY ReadOnce DEF ReadInv, StoreInv
<1>2. QED
  BY <1>1, ReadInit, ReadNext, PTL DEF Spec

\* Every segment of s with records has a row that ends at the last of them.
Covered(s) ==
  \A k \in Filled(s) : \E r \in segments :
    r.sess = s /\ r.parent = 0 /\ r.idx = k /\ r.end = Clean(file[s][k])[Len(Clean(file[s][k]))].seq

CoveredIsRead == \A s \in Session : Covered(s) => View(s) \ base[s].seen \subseteq Replay(s)

\* The numbers in a file ascend, so a cursor that ends at the last record
\* returns all of them.
LEMMA CoveredReads ==
  ReadInv => CoveredIsRead
<1> SUFFICES ASSUME ReadInv, NEW s \in Session, Covered(s), NEW x \in View(s) \ base[s].seen
             PROVE  x \in Replay(s)
  BY DEF CoveredIsRead
<1> USE DEF ReadInv, StoreInv
<1>1. PICK k, i : Rec(s, k, i, x.ev) /\ x = file[s][k][i]
  BY ViewIs
<1>2. k \in DOMAIN file[s] /\ i \in DOMAIN file[s][k] /\ x.ev # 0
  BY <1>1 DEF Rec
<1>3. file[s][k] \in Seq(Item(Len(log))) /\ Fits(s) /\ k \in Nat \ {0}
  BY <1>2, FileType DEF BaseInv, StoreTypes, FileInv
<1> DEFINE q == file[s][k]
           c == Clean(q)
           n == Len(c)
<1>4. i \in DOMAIN c
  <2>1. \A j \in DOMAIN q : q[j].ev = 0 => j = Len(q)
    BY <1>2, <1>3 DEF Fits, Places
  <2>2. QED
    BY <1>2, <1>1, <1>3, <2>1, CleanAtEnd
<1>5. /\ n \in Nat /\ DOMAIN c = 1 .. n /\ n <= Len(q) /\ Len(q) \in Nat /\ DOMAIN q = 1 .. Len(q)
      /\ \A j \in 1 .. n : c[j] = q[j] /\ q[j].ev # 0
  BY <1>3, CleanIs
<1>6. \A j \in 1 .. n : c[j].seq = From(s, k) + j - 1
  <2> SUFFICES ASSUME NEW j \in 1 .. n PROVE c[j].seq = From(s, k) + j - 1
    OBVIOUS
  <2> HIDE DEF n, c
  <2>1. j \in DOMAIN q /\ q[j].ev # 0 /\ c[j] = q[j]
    <3> HIDE DEF q
    <3>1. QED
      BY <1>5
  <2>2. q[j].seq = From(s, k) + j - 1
    BY <1>2, <1>3, <2>1 DEF Fits, Places
  <2>3. QED
    BY <2>1, <2>2
<1>7. k \in Filled(s)
  BY <1>2, <1>4, <1>5 DEF Filled
<1>8. PICK r \in segments : r.sess = s /\ r.parent = 0 /\ r.idx = k /\ r.end = c[n].seq
  BY <1>7 DEF Covered
<1>9. Root(r) = r
  <2>1. PICK g : Rooted(g)
    BY DEF Forest
  <2>2. Root(r) \in segments /\ Root(r).id = r.id
    BY <1>8, <2>1, RootIs DEF Rooted
  <2>3. QED
    BY <2>2 DEF BaseInv, IdsOK, RowsUnique
<1>10. \A j \in DOMAIN c : ~(c[j].seq > r.end)
  <2>1. From(s, k) \in Nat /\ n \in 1 .. n
    <3>1. From(s, k) \in Nat
      BY <1>3, FromNext
    <3> HIDE DEF n, c
    <3>2. i \in 1 .. n /\ n \in Nat
      BY <1>4, <1>5
    <3>3. QED
      BY <3>1, <3>2
  <2> DEFINE a == From(s, k)
  <2>2. a \in Nat /\ r.end = a + n - 1
    BY <1>6, <1>8, <2>1
  <2>3. \A j \in 1 .. n : c[j].seq = a + j - 1
    BY <1>6
  <2> HIDE DEF a, n, c
  <2>4. ASSUME NEW j \in 1 .. n PROVE ~(a + j - 1 > a + n - 1)
    BY <1>5, <2>2
  <2>5. QED
    BY <1>5, <2>2, <2>3, <2>4
<1>11. Cursor(r) = c
  <2>1. {j \in DOMAIN c : c[j].seq > r.end} = {}
    BY <1>10
  <2>2. QED
    BY <1>8, <1>9, <2>1 DEF Cursor
<1>12. x \in RecordSet(Cursor(r))
  BY <1>1, <1>4, <1>5, <1>11 DEF RecordSet
<1>13. QED
  BY <1>8, <1>12 DEF Replay

LEMMA RebuildCovers ==
  ASSUME BaseInv, NEW s \in Session, Rebuild(s)
  PROVE  Covered(s)'
<1>1. /\ segments' = {r \in segments : \A k \in Filled(s) : r.id # NewId(s, k)} \cup {NewRow(s, k) : k \in Filled(s)}
      /\ file' = file
  BY RebuildIs DEF diskVars
<1>2. Filled(s)' = Filled(s)
  BY <1>1 DEF Filled
<1>3. ASSUME NEW k \in Filled(s)
      PROVE  /\ NewRow(s, k) \in segments' /\ NewRow(s, k).sess = s /\ NewRow(s, k).parent = 0
             /\ NewRow(s, k).idx = k
             /\ NewRow(s, k).end = Clean(file'[s][k])[Len(Clean(file'[s][k]))].seq
  BY <1>1 DEF NewRow
<1>4. QED
  BY <1>2, <1>3 DEF Covered

\* A record without an index row gets one; a row under its offset is its own.
LEMMA RebuildIndexes ==
  ASSUME ReadInv, NEW s \in Session, Rebuild(s), NEW x \in View(s) \ base[s].seen
  PROVE  [off |-> x.seq, ev |-> x.ev] \in ReadEvents(s)'
<1> USE DEF ReadInv, StoreInv
<1>1. PICK k, i : Rec(s, k, i, x.ev) /\ x = file[s][k][i]
  BY ViewIs
<1>2. k \in DOMAIN file[s] /\ i \in DOMAIN file[s][k] /\ x.ev # 0
  BY <1>1 DEF Rec
<1>3. file[s][k] \in Seq(Item(Len(log))) /\ Fits(s)
  BY <1>2, FileType DEF BaseInv, StoreTypes, FileInv
<1> DEFINE q == file[s][k]
           c == Clean(q)
<1>4. i \in DOMAIN c /\ c[i] = x
  <2>1. \A j \in DOMAIN q : q[j].ev = 0 => j = Len(q)
    BY <1>2, <1>3 DEF Fits, Places
  <2>2. i \in DOMAIN c
    BY <1>2, <1>1, <1>3, <2>1, CleanAtEnd
  <2>3. QED
    BY <1>1, <1>3, <2>2, CleanIs
<1>5. k \in Filled(s)
  BY <1>2, <1>3, <1>4, CleanIs DEF Filled
<1>6. PICK e : e = [sess |-> s, off |-> x.seq, seg |-> NewId(s, k), ev |-> x.ev]
  OBVIOUS
<1>7. e \in NewEvents(s, k)
  BY <1>4, <1>6 DEF NewEvents, RecordSet
<1>8. events' = events \cup {o \in UNION {NewEvents(s, l) : l \in Filled(s)} :
                               \A u \in events : u.sess = s => u.off # o.off}
  BY RebuildIs
<1>9. \E o \in events' : o.sess = s /\ o.off = x.seq /\ o.ev = x.ev
  <2>1. CASE \A u \in events : u.sess = s => u.off # e.off
    BY <1>5, <1>6, <1>7, <1>8, <2>1
  <2>2. CASE \E u \in events : u.sess = s /\ u.off = e.off
    <3>1. PICK u \in events : u.sess = s /\ u.off = x.seq
      BY <1>6, <2>2
    <3>2. PICK l, j \in Nat : Kept(s, l, j) /\ file[s][l][j].seq = u.off /\ file[s][l][j].ev = u.ev
      BY <3>1 DEF RowsOK, EventsOnDisk, OnDisk
    <3>3. l \in DOMAIN file[s] /\ j \in DOMAIN file[s][l] /\ file[s][l][j].ev # 0
      BY <3>2 DEF Kept
    <3>4. k = l /\ i = j
      BY <1>1, <1>2, <1>3, <3>1, <3>2, <3>3, SeqUnique
    <3>5. QED
      BY <1>1, <1>8, <3>1, <3>2, <3>4
  <2>3. QED
    BY <2>1, <2>2
<1>10. PICK o \in events' : o.sess = s /\ o.off = x.seq /\ o.ev = x.ev
  BY <1>9
<1>11. [off |-> o.off, ev |-> o.ev] \in ReadEvents(s)'
  BY <1>10 DEF ReadEvents
<1>12. QED
  BY <1>10, <1>11

\* After rebuild_index every record in the session's own files is returned by
\* replay and by read_events, whatever the crash before it left of the index.
THEOREM RebuildHealsProved ==
  ASSUME ~IoErrors
  PROVE  Spec => RebuildHeals
<1>1. ReadInv' => CoveredIsRead'
  BY CoveredReads, PTL
<1>2. ASSUME ReadInv, [Next]_vars, NEW s \in Session, Rebuild(s)
      PROVE  /\ (View(s) \ base[s].seen \subseteq Replay(s))'
             /\ \A x \in View(s) \ base[s].seen : [off |-> x.seq, ev |-> x.ev] \in ReadEvents(s)'
  <2>1. CoveredIsRead'
    BY <1>1, <1>2, ReadNext
  <2>2. Covered(s)'
    BY <1>2, RebuildCovers DEF ReadInv, StoreInv
  <2>3. QED
    BY <1>2, <2>1, <2>2, RebuildIndexes DEF CoveredIsRead
<1> DEFINE Heals == \A s \in Session : Rebuild(s) =>
                      /\ (View(s) \ base[s].seen \subseteq Replay(s))'
                      /\ \A x \in View(s) \ base[s].seen : [off |-> x.seq, ev |-> x.ev] \in ReadEvents(s)'
<1>3. ReadInv /\ [Next]_vars => Heals
  BY <1>2
<1> HIDE DEF Heals
<1>4. Spec => [][Heals]_vars
  BY <1>3, ReadInit, ReadNext, PTL DEF Spec
<1>5. QED
  BY <1>4 DEF RebuildHeals, Heals

-----------------------------------------------------------------------------
(* What a fork inherits.                                                   *)

\* Record x is in the file of the own row q, at most at number e.
Shows(q, e, x) == \E i : Rec(q.sess, q.idx, i, x.ev) /\ x = file[q.sess][q.idx][i] /\ x.seq <= e

CursorsAre == \A r \in segments : \A x : x \in RecordSet(Cursor(r)) <=> Shows(Root(r), r.end, x)
RootsAre ==
  \A g : Rooted(g) => \A r \in segments : Root(r) \in segments /\ Root(r).parent = 0 /\ Root(r).id = g[r.id]

LEMMA RootsLead ==
  BaseInv => RootsAre
<1> SUFFICES ASSUME BaseInv, NEW g, Rooted(g), NEW r \in segments
             PROVE  Root(r) \in segments /\ Root(r).parent = 0 /\ Root(r).id = g[r.id]
  BY DEF RootsAre
<1>1. QED
  BY RootIs

\* The numbers in a file ascend, so the end of a cursor cuts off what is above.
UpTo(c, e) ==
  LET over == {i \in DOMAIN c : c[i].seq > e}
  IN IF over = {} THEN c ELSE SubSeq(c, 1, Min(over) - 1)

Ascends(c, a) == \A i \in 1 .. Len(c) : c[i].seq = a + i - 1
HasUpTo(c, a, e, x) == \E i \in 1 .. Len(c) : x = c[i] /\ a + i - 1 <= e

LEMMA UpToIs ==
  ASSUME NEW T, NEW c \in Seq(T), NEW a \in Nat, NEW e \in Nat, Ascends(c, a), NEW x
  PROVE  x \in RecordSet(UpTo(c, e)) <=> HasUpTo(c, a, e, x)
<1> DEFINE over == {i \in DOMAIN c : c[i].seq > e}
           n == Len(c)
<1>1. n \in Nat /\ DOMAIN c = 1 .. n
  OBVIOUS
<1>2. UpTo(c, e) = IF over = {} THEN c ELSE SubSeq(c, 1, Min(over) - 1)
  BY DEF UpTo
<1>3. over \in SUBSET Nat /\ \A i : i \in over <=> i \in 1 .. n /\ c[i].seq > e
  BY <1>1
<1>4. \A i \in 1 .. n : c[i].seq = a + i - 1
  BY DEF Ascends
<1> HIDE DEF over, n
<1>5. \A i : i \in over <=> i \in 1 .. n /\ a + i - 1 > e
  BY <1>3, <1>4
<1>6. CASE over = {}
  <2>1. x \in RecordSet(UpTo(c, e)) <=> \E i \in 1 .. n : x = c[i]
    BY <1>1, <1>2, <1>6 DEF RecordSet
  <2>2. ASSUME NEW i \in 1 .. n PROVE a + i - 1 <= e
    <3>1. ~(a + i - 1 > e)
      BY <1>5, <1>6
    <3>2. i \in Int
      BY <1>1
    <3>3. QED
      BY <3>1, <3>2
  <2>3. QED
    BY <2>1, <2>2 DEF n, HasUpTo
<1>7. CASE over # {}
  <2> DEFINE o == Min(over)
             m == o - 1
  <2>1. o \in over /\ \A i \in over : o <= i
    BY <1>3, <1>7, MinIs
  <2> HIDE DEF o
  <2>2. o \in 1 .. n /\ o \in Nat /\ a + o - 1 > e
    BY <1>1, <1>5, <2>1
  <2>3. m \in 0 .. n /\ \A i \in 1 .. n : i <= m <=> a + i - 1 <= e
    <3>1. m \in 0 .. n
      BY <1>1, <2>2
    <3>2. ASSUME NEW i \in 1 .. n PROVE i <= m <=> a + i - 1 <= e
      <4>1. i < o <=> a + i - 1 <= e
        BY <1>1, <1>5, <2>1, <2>2
      <4>2. QED
        BY <1>1, <2>2, <4>1
    <3>3. QED
      BY <3>1, <3>2
  <2>4. UpTo(c, e) = SubSeq(c, 1, m)
    BY <1>2, <1>7 DEF o
  <2> HIDE DEF m
  <2>5. DOMAIN SubSeq(c, 1, m) = 1 .. m /\ \A i \in 1 .. m : SubSeq(c, 1, m)[i] = c[i]
    BY <2>3 DEF n
  <2>6. x \in RecordSet(UpTo(c, e)) <=> \E i \in 1 .. m : x = c[i]
    BY <2>4, <2>5 DEF RecordSet
  <2>7. \A i : i \in 1 .. m <=> i \in 1 .. n /\ i <= m
    BY <1>1, <2>3
  <2>8. QED
    BY <2>3, <2>6, <2>7 DEF n, HasUpTo
<1>8. QED
  BY <1>6, <1>7

\* So a cursor returns the records of its file up to its end.
LEMMA CursorsShow ==
  ReadInv => CursorsAre
<1> SUFFICES ASSUME ReadInv, NEW r \in segments, NEW x
             PROVE  x \in RecordSet(Cursor(r)) <=> Shows(Root(r), r.end, x)
  BY DEF CursorsAre
<1> USE DEF ReadInv, StoreInv
<1> PICK R : R = Root(r)
  OBVIOUS
<1>1. R \in segments /\ R.parent = 0 /\ R.sess \in Session
  <2>1. PICK g : Rooted(g)
    BY DEF Forest
  <2>2. R \in segments /\ R.parent = 0
    BY <2>1, RootIs
  <2>3. QED
    BY <2>2 DEF BaseInv, StoreTypes, IndexOK, SegmentRow
<1> PICK s \in Session : s = R.sess
  BY <1>1
<1> PICK k : k = R.idx
  OBVIOUS
<1>2. k \in DOMAIN file[s]
  BY <1>1 DEF RowsOK, SegmentsOnDisk, RowOnDisk, Kept
<1>3. file[s][k] \in Seq(Item(Len(log))) /\ k \in Nat \ {0} /\ Places(s)
  BY <1>2, FileType DEF BaseInv, StoreTypes, FileInv, Fits
<1> PICK q : q = file[s][k]
  OBVIOUS
<1> PICK c : c = Clean(q)
  OBVIOUS
<1> PICK e : e = r.end
  OBVIOUS
<1> PICK a : a = From(s, k)
  OBVIOUS
<1>4. a \in Nat /\ e \in Nat
  BY <1>3, FromNext DEF BaseInv, StoreTypes, IndexOK, SegmentRow
<1>5. q \in Seq(Item(Len(log)))
  BY <1>3
<1>6. /\ c \in Seq(Item(Len(log))) /\ Len(c) \in Nat /\ DOMAIN c = 1 .. Len(c) /\ Len(c) <= Len(q)
       /\ \A i \in 1 .. Len(c) : c[i] = q[i] /\ q[i].ev # 0
  BY <1>5, CleanIs
<1> PICK n : n = Len(c)
  OBVIOUS
<1>7. DOMAIN q = 1 .. Len(q) /\ Len(q) \in Nat
  BY <1>5
<1>8. /\ n \in Nat /\ DOMAIN c = 1 .. n
      /\ \A i \in 1 .. n : i \in DOMAIN q /\ c[i] = q[i] /\ q[i].ev # 0
  <2> PICK l : l = Len(q)
    OBVIOUS
  <2>1. n \in Nat /\ l \in Nat /\ n <= l /\ DOMAIN q = 1 .. l
    BY <1>6, <1>7
  <2>2. \A i \in 1 .. n : i \in DOMAIN q
    BY <2>1
  <2>3. QED
    BY <1>6, <2>2
<1>9. \A i \in DOMAIN q : q[i].ev # 0 => i \in DOMAIN c /\ q[i].seq = a + i - 1
  <2>1. \A i \in DOMAIN q : q[i].ev = 0 => i = Len(q)
    BY <1>2, <1>3 DEF Places
  <2>2. \A i \in DOMAIN q : q[i].ev # 0 => i \in DOMAIN c
    BY <1>5, <2>1, CleanAtEnd
  <2>3. QED
    BY <1>2, <1>3, <2>2 DEF Places
<1>10. \A i \in 1 .. n : c[i].seq = a + i - 1
  BY <1>8, <1>9
<1>11. Shows(Root(r), r.end, x) <=> \E i \in 1 .. n : x = c[i] /\ a + i - 1 <= e
  <2>1. Shows(R, e, x) <=> \E i : Rec(s, k, i, x.ev) /\ x = q[i] /\ x.seq <= e
    BY DEF Shows
  <2>2. ASSUME NEW i, Rec(s, k, i, x.ev), x = q[i], x.seq <= e
        PROVE  i \in 1 .. n /\ x = c[i] /\ a + i - 1 <= e
    <3>1. i \in DOMAIN q /\ q[i].ev # 0
      BY <2>2 DEF Rec
    <3>2. QED
      BY <1>8, <1>9, <2>2, <3>1
  <2>3. ASSUME NEW i \in 1 .. n, x = c[i], a + i - 1 <= e
        PROVE  Rec(s, k, i, x.ev) /\ x = q[i] /\ x.seq <= e
    <3>1. i \in DOMAIN q /\ x = q[i] /\ q[i].ev # 0
      BY <1>8, <2>3
    <3>2. QED
      BY <1>2, <1>10, <2>3, <3>1 DEF Rec
  <2>4. QED
    BY <2>1, <2>2, <2>3
<1>12. x \in RecordSet(Cursor(r)) <=> \E i \in 1 .. n : x = c[i] /\ a + i - 1 <= e
  <2>1. Cursor(r) = UpTo(c, e)
    BY DEF Cursor, UpTo
  <2>2. c \in Seq(Item(Len(log))) /\ \A i \in 1 .. Len(c) : c[i].seq = a + i - 1
    BY <1>10, <1>6
  <2>3. Ascends(c, a)
    BY <2>2 DEF Ascends
  <2>4. x \in RecordSet(UpTo(c, e)) <=> HasUpTo(c, a, e, x)
    BY <1>4, <2>2, <2>3, UpToIs
  <2>5. QED
    BY <2>1, <2>4 DEF HasUpTo
<1>13. QED
  BY <1>11, <1>12

\* Every row stays, and its chain leads where it led.
RowsLead == RootsKept /\ \A r \in segments : \E q \in segments' : SameRow(r, q)

\* The copied rows neither come nor go nor change.
CopiesStay == RowsLead /\ \A r : r.parent # 0 => (r \in segments' <=> r \in segments)

LEMMA InsertSegmentCopies ==
  ASSUME BaseInv, Forest, NEW f \in Flusher, InsertSegment(f)
  PROVE  CopiesStay
<1>1. PICK m \in SegmentRow :
           /\ m = metas[f][1] /\ 1 \in DOMAIN metas[f]
           /\ segments' = {r \in segments : r.id # m.id} \cup
                (IF \E r \in segments : r.id = m.id
                 THEN {[r EXCEPT !.end = m.end] : r \in {r \in segments : r.id = m.id}} ELSE {m})
  BY InsertSegmentIs DEF BaseInv
<1>2. m.parent = 0
  BY <1>1 DEF BaseInv, IdsOK, MetasOwn
<1>3. ASSUME NEW r \in segments, r.id = m.id PROVE r.parent = 0 /\ [r EXCEPT !.end = m.end].parent = 0
  <2>1. Stands(r.id, r.sess, r.idx, r.parent) /\ Stands(r.id, m.sess, m.idx, 0)
    BY <1>1, <1>2, <1>3 DEF Stands, InIndex, InMetas
  <2>2. r.parent = 0
    BY <2>1 DEF BaseInv, IdsOK, IdsUnique
  <2>3. r \in SegmentRow
    BY DEF BaseInv, StoreTypes, IndexOK
  <2>4. QED
    BY <2>2, <2>3 DEF SegmentRow
<1>4. ASSUME NEW r, r.parent # 0 PROVE r \in segments' <=> r \in segments
  <2>1. r \in segments => r.id # m.id
    BY <1>3, <1>4
  <2>2. r \in segments' => r \in segments
    BY <1>1, <1>2, <1>3, <1>4
  <2>3. QED
    BY <1>1, <2>1, <2>2
<1>5. OwnRowsCome
  BY InsertSegmentComes
<1>6. QED
  BY <1>4, <1>5, ForestGrows DEF CopiesStay, RowsLead, OwnRowsCome

LEMMA RebuildCopies ==
  ASSUME BaseInv, Forest, NEW s \in Session, Rebuild(s)
  PROVE  CopiesStay
<1>1. segments' = {r \in segments : \A k \in Filled(s) : r.id # NewId(s, k)} \cup {NewRow(s, k) : k \in Filled(s)}
  BY RebuildIs
<1>2. \A k : NewRow(s, k).parent = 0
  BY DEF NewRow
<1>3. ASSUME NEW r \in segments, r.parent # 0, NEW k \in Filled(s) PROVE r.id # NewId(s, k)
  <2>1. CASE HasRow(s, k)
    <3>1. RowFor(s, k) \in segments /\ RowFor(s, k).parent = 0 /\ NewId(s, k) = RowFor(s, k).id
      BY <2>1, RowForIs DEF BaseInv, StoreTypes, NewId
    <3>2. QED
      BY <1>3, <3>1 DEF BaseInv, IdsOK, RowsUnique
  <2>2. CASE ~HasRow(s, k)
    <3>1. NewId(s, k) = nextId + k /\ k \in Nat
      BY <2>2, FilledRecords DEF NewId, BaseInv
    <3>2. Stands(r.id, r.sess, r.idx, r.parent)
      BY DEF Stands, InIndex
    <3>3. r.id \in Nat /\ r.id < nextId /\ nextId \in Nat
      BY <3>2 DEF BaseInv, IdsOK, IdsBelow, StoreTypes, IndexOK, SegmentRow
    <3>4. QED
      BY <3>1, <3>3
  <2>3. QED
    BY <2>1, <2>2
<1>4. \A r : r.parent # 0 => (r \in segments' <=> r \in segments)
  BY <1>1, <1>2, <1>3
<1>5. OwnRowsCome
  BY RebuildComes
<1>6. QED
  BY <1>4, <1>5, ForestGrows DEF CopiesStay, RowsLead, OwnRowsCome

LEMMA CopiesStep ==
  ASSUME BaseInv, Forest, [Next]_vars, ~\E p, c \in Session, n \in 0 .. MaxEvents : Fork(p, n, c)
  PROVE  CopiesStay
<1>1. ASSUME segments' = segments PROVE CopiesStay
  <2>1. PICK g : Rooted(g)
    BY DEF Forest
  <2>2. Rooted(g)'
    BY <1>1, <2>1 DEF Rooted, RowIds
  <2>3. RootsKept
    BY <2>1, <2>2 DEF RootsKept
  <2>4. QED
    BY <1>1, <2>3 DEF CopiesStay, RowsLead, SameRow
<1>2. ASSUME NEW f \in Flusher, FlushFails(f) PROVE segments' = segments
  BY <1>2 DEF FlushFails, indexVars
<1>3. ASSUME NEW f \in Flusher, NEW s \in Session, AppendEvent(f, s) \/ OpenGroup(f, s) PROVE segments' = segments
  BY <1>2, <1>3 DEF AppendEvent, OpenGroup, indexVars
<1>4. ASSUME NEW f \in Flusher, TakeBatch(f) \/ FlushNothing(f) \/ Roll(f) \/ Write(f) \/ Sync(f)
      PROVE  segments' = segments
  BY <1>2, <1>4 DEF TakeBatch, FlushNothing, Roll, Write, Sync, indexVars
<1>5. ASSUME NEW f \in Flusher, InsertEvents(f) \/ Confirm(f) PROVE segments' = segments
  BY <1>2, <1>5 DEF InsertEvents, Confirm, indexVars
<1>6. ASSUME NEW f \in Flusher, Refuse(f) \/ WriteFails(f) \/ SyncFails(f) \/ IndexFails(f) PROVE segments' = segments
  BY <1>2, <1>6 DEF Refuse, WriteFails, SyncFails, IndexFails
<1>7. ASSUME Crash \/ UNCHANGED vars PROVE segments' = segments
  BY <1>7 DEF Crash, vars, indexVars
<1>8. QED
  BY <1>1, <1>3, <1>4, <1>5, <1>6, <1>7, InsertSegmentCopies, RebuildCopies DEF Next, FlushStep

\* A row begins with the file that its chain leads to, which is on disk for
\* good up to where the row ends; the file of a copied row is another session's.
Leads(r) ==
  LET q == Root(r)
  IN /\ r.start = From(q.sess, q.idx)
     /\ \E i : Kept(q.sess, q.idx, i) /\ r.end <= From(q.sess, q.idx) + i - 1

CopyOK(r) == Leads(r) /\ Root(r).sess # r.sess

CopiesOK == \A r \in segments : r.parent # 0 => CopyOK(r)

\* What was seen at the fork is what the copied rows show.
SeenIs == \A s \in Session : \A x : x \in base[s].seen <=> \E r \in CopiedRows(s) : x \in RecordSet(Cursor(r))

InheritInv == ReadInv /\ CopiesOK /\ SeenIs

LEMMA RootStays ==
  ASSUME RootsAre, RootsAre', RowsUnique', RowsLead, NEW r \in segments, r \in segments'
  PROVE  SameRow(Root(r), Root(r)')
<1>1. PICK g, h : Rooted(g) /\ Rooted(h)' /\ \A q \in segments : h[q.id] = g[q.id]
  BY DEF RowsLead, RootsKept
<1>2. Root(r) \in segments /\ Root(r).id = g[r.id]
  BY <1>1 DEF RootsAre
<1>3. Root(r)' \in segments' /\ Root(r)'.id = h[r.id]
  BY <1>1 DEF RootsAre
<1>4. PICK q \in segments' : SameRow(Root(r), q)
  BY <1>2 DEF RowsLead
<1>5. q.id = Root(r)'.id
  BY <1>1, <1>2, <1>3, <1>4 DEF SameRow
<1>6. q = Root(r)'
  BY <1>3, <1>5 DEF RowsUnique
<1>7. QED
  BY <1>4, <1>6

\* What comes before a record that is on disk for good is so too.
LEMMA KeptBelow ==
  ASSUME BaseInv, FileInv, NEW s \in Session, NEW k, NEW j, Kept(s, k, j), NEW i \in Nat \ {0}, i <= j
  PROVE  Kept(s, k, i)
<1> DEFINE l == Len(file[s][k])
           d == dirty[s]
<1>1. k \in DOMAIN file[s] /\ j \in DOMAIN file[s][k] /\ file[s][k][j].ev # 0 /\ (k = cur[s].idx => j <= l - d)
  BY DEF Kept
<1>2. l \in Nat /\ DOMAIN file[s][k] = 1 .. l
  BY <1>1, FileType DEF BaseInv, StoreTypes
<1>3. d \in Nat
  BY DEF BaseInv, StoreTypes, OpenOK
<1>4. Places(s)
  BY DEF FileInv, Fits
<1>5. \A o \in DOMAIN file[s][k] : file[s][k][o].ev = 0 => o = l
  BY <1>1, <1>4 DEF Places
<1> HIDE DEF l, d
<1>6. i \in 1 .. l /\ (i = l => i = j) /\ (j <= l - d => i <= l - d)
  BY <1>1, <1>2, <1>3
<1>7. file[s][k][i].ev # 0
  BY <1>1, <1>2, <1>5, <1>6
<1>8. QED
  BY <1>1, <1>2, <1>6, <1>7 DEF Kept, l, d

\* What the file of q shows up to a number that is on disk for good never changes.
LEMMA ShowsStays ==
  ASSUME BaseInv, BaseInv', FileInv, FileInv', Moved, NEW q, q.sess \in Session, NEW e \in Nat,
         NEW j, Kept(q.sess, q.idx, j), e <= From(q.sess, q.idx) + j - 1
  PROVE  /\ \A x : Shows(q, e, x)' <=> Shows(q, e, x)
         /\ Kept(q.sess, q.idx, j)' /\ From(q.sess, q.idx)' = From(q.sess, q.idx)
<1> PICK s \in Session : s = q.sess
  OBVIOUS
<1> PICK k : k = q.idx
  OBVIOUS
<1>1. k \in DOMAIN file[s] /\ j \in DOMAIN file[s][k]
  BY DEF Kept
<1>2. Kept(s, k, j)' /\ file[s] # <<>>
  BY <1>1 DEF Moved, StaysPut
<1>3. From(s, k)' = From(s, k)
  BY <1>2 DEF Moved, From
<1> PICK l : l = Len(file[s][k])
  OBVIOUS
<1>4. k \in Nat \ {0} /\ l \in Nat /\ DOMAIN file[s][k] = 1 .. l /\ j \in 1 .. l
  <2>1. file[s][k] \in Seq(Item(Len(log))) /\ k \in Nat \ {0}
    BY <1>1, FileType DEF BaseInv, StoreTypes
  <2>2. l \in Nat /\ DOMAIN file[s][k] = 1 .. l
    BY <2>1
  <2>3. QED
    BY <1>1, <2>1, <2>2
<1> PICK a : a = From(s, k)
  OBVIOUS
<1>5. a \in Nat
  BY <1>4, FromNext
<1>6. ASSUME NEW i, NEW v, Rec(s, k, i, v) PROVE i \in Nat \ {0} /\ file[s][k][i].seq = a + i - 1
  <2>1. i \in DOMAIN file[s][k] /\ file[s][k][i].ev # 0
    BY <1>6 DEF Rec
  <2>2. Places(s)
    BY DEF FileInv, Fits
  <2>3. file[s][k][i].seq = From(s, k) + i - 1
    BY <1>1, <2>1, <2>2 DEF Places
  <2>4. QED
    BY <1>4, <2>1, <2>3
<1>7. ASSUME NEW i, NEW v, Rec(s, k, i, v)' PROVE i \in Nat \ {0} /\ file'[s][k][i].seq = a + i - 1
  <2>1. k \in DOMAIN file'[s] /\ i \in DOMAIN file'[s][k] /\ file'[s][k][i].ev # 0
    BY <1>7 DEF Rec
  <2>2. i \in Nat \ {0}
    BY <2>1 DEF BaseInv, StoreTypes, FilesOK
  <2>3. Places(s)'
    BY DEF FileInv, Fits
  <2>4. file'[s][k][i].seq = From(s, k)' + i - 1
    BY <2>1, <2>3 DEF Places
  <2>5. QED
    BY <1>3, <2>2, <2>4
<1>8. ASSUME NEW i \in Nat, a + i - 1 <= e PROVE i <= j
  BY <1>4, <1>5, <1>8
<1>9. ASSUME NEW i \in Nat \ {0}, i <= j PROVE Kept(s, k, i)
  BY <1>9, KeptBelow
<1>10. ASSUME NEW x, NEW i, Rec(s, k, i, x.ev), x = file[s][k][i], x.seq <= e
      PROVE  Rec(s, k, i, x.ev)' /\ x = file'[s][k][i]
  <2>1. i \in Nat \ {0} /\ i <= j
    BY <1>6, <1>8, <1>10
  <2>2. Kept(s, k, i)
    BY <1>9, <2>1
  <2>3. QED
    BY <1>10, <2>2 DEF Moved, StaysPut, Kept, Rec
<1>11. ASSUME NEW x, NEW i, Rec(s, k, i, x.ev)', x = file'[s][k][i], x.seq <= e
       PROVE  Rec(s, k, i, x.ev) /\ x = file[s][k][i]
  <2>1. i \in Nat \ {0} /\ i <= j
    BY <1>7, <1>8, <1>11
  <2>2. Kept(s, k, i)
    BY <1>9, <2>1
  <2>3. i \in DOMAIN file[s][k] /\ file[s][k][i].ev # 0
    BY <2>2 DEF Kept
  <2>4. file'[s][k][i] = file[s][k][i]
    BY <2>2 DEF Moved, StaysPut
  <2>5. QED
    BY <1>1, <1>11, <2>3, <2>4 DEF Rec
<1>12. ASSUME NEW x PROVE Shows(q, e, x)' <=> Shows(q, e, x)
  BY <1>10, <1>11 DEF Shows
<1>13. QED
  BY <1>2, <1>3, <1>12

LEMMA AllFollow ==
  ReadInv => RootsAre /\ CursorsAre
BY RootsLead, CursorsShow DEF ReadInv, StoreInv

LEMMA AllFollowNext ==
  ReadInv' => RootsAre' /\ CursorsAre'
BY AllFollow, PTL

LEMMA RowsRoot ==
  ASSUME ReadInv, NEW r \in segments
  PROVE  /\ Root(r) \in segments /\ Root(r).parent = 0 /\ Root(r).sess \in Session
         /\ r.parent = 0 => Root(r) = r
<1>1. PICK g : Rooted(g)
  BY DEF ReadInv, Forest
<1>2. Root(r) \in segments /\ Root(r).parent = 0 /\ Root(r).id = g[r.id]
  BY <1>1, AllFollow DEF RootsAre
<1>3. r.parent = 0 => Root(r) = r
  BY <1>1, <1>2 DEF Rooted, ReadInv, StoreInv, BaseInv, IdsOK, RowsUnique
<1>4. QED
  BY <1>2, <1>3 DEF ReadInv, StoreInv, BaseInv, StoreTypes, IndexOK, SegmentRow

LEMMA AllLead ==
  ASSUME InheritInv, NEW r \in segments
  PROVE  Leads(r)
<1>1. CASE r.parent # 0
  BY <1>1 DEF InheritInv, CopiesOK, CopyOK
<1>2. CASE r.parent = 0
  <2>1. Root(r) = r
    BY <1>2, RowsRoot DEF InheritInv
  <2>2. RowOnDisk(r)
    BY <1>2 DEF InheritInv, ReadInv, StoreInv, RowsOK, SegmentsOnDisk
  <2> PICK a : a = From(r.sess, r.idx)
    OBVIOUS
  <2>3. r.start = a /\ Kept(r.sess, r.idx, r.end - r.start + 1)
    BY <2>2 DEF RowOnDisk
  <2>4. r.start \in Nat /\ r.end \in Nat
    BY DEF InheritInv, ReadInv, StoreInv, BaseInv, StoreTypes, IndexOK, SegmentRow
  <2>5. r.end <= a + (r.end - r.start + 1) - 1
    BY <2>3, <2>4
  <2>6. QED
    BY <2>1, <2>3, <2>5 DEF Leads
<1>3. QED
  BY <1>1, <1>2

\* What a cursor over the row shows is a record with a number of its file.
LEMMA ShownAre ==
  ASSUME ReadInv, NEW r \in segments, NEW x, Shows(Root(r), r.end, x)
  PROVE  /\ x.seq \in Nat /\ x.seq >= From(Root(r).sess, Root(r).idx) /\ From(Root(r).sess, Root(r).idx) \in Nat
         /\ log[x.ev] = Root(r).sess
<1> PICK s \in Session : s = Root(r).sess
  BY RowsRoot
<1> PICK k : k = Root(r).idx
  OBVIOUS
<1>1. PICK i : Rec(s, k, i, x.ev) /\ x = file[s][k][i]
  BY DEF Shows
<1>2. k \in DOMAIN file[s] /\ i \in DOMAIN file[s][k] /\ file[s][k][i].ev # 0
  BY <1>1 DEF Rec
<1>3. k \in Nat \ {0} /\ i \in Nat \ {0}
  <2>1. k \in Nat \ {0} /\ DOMAIN file[s][k] = 1 .. Len(file[s][k]) /\ Len(file[s][k]) \in Nat
    BY <1>2, FileType DEF ReadInv, StoreInv, BaseInv, StoreTypes
  <2>2. QED
    BY <1>2, <2>1
<1> PICK a : a = From(s, k)
  OBVIOUS
<1>4. a \in Nat
  BY <1>3, FromNext DEF ReadInv, StoreInv
<1>5. Places(s)
  BY DEF ReadInv, StoreInv, FileInv, Fits
<1>6. x.seq = a + i - 1
  BY <1>1, <1>2, <1>5 DEF Places
<1>7. x.seq \in Nat /\ x.seq >= a
  BY <1>3, <1>4, <1>6
<1>8. log[x.ev] = s
  BY <1>1 DEF ReadInv, StoreInv, OnceOK, RecordsOwn
<1>9. QED
  BY <1>4, <1>7, <1>8

LEMMA CopyStays ==
  ASSUME InheritInv, ReadInv', Moved, RowsLead, NEW r \in segments, r \in segments', r.parent # 0
  PROVE  CopyOK(r)' /\ \A x : x \in RecordSet(Cursor(r))' <=> x \in RecordSet(Cursor(r))
<1> PICK q : q = Root(r)
  OBVIOUS
<1> PICK p : p = Root(r)'
  OBVIOUS
<1>1. SameRow(q, p)
  BY RootStays, AllFollow, AllFollowNext DEF InheritInv, ReadInv, StoreInv, BaseInv, IdsOK
<1>2. q.sess \in Session /\ p.sess = q.sess /\ p.idx = q.idx
  BY <1>1, RowsRoot DEF SameRow, InheritInv
<1>3. PICK j : Kept(q.sess, q.idx, j) /\ r.end <= From(q.sess, q.idx) + j - 1
  BY AllLead DEF Leads
<1>4. r.start = From(q.sess, q.idx) /\ q.sess # r.sess /\ r.end \in Nat
  BY DEF InheritInv, CopiesOK, CopyOK, Leads, ReadInv, StoreInv, BaseInv, StoreTypes, IndexOK, SegmentRow
<1>5. /\ \A x : Shows(q, r.end, x)' <=> Shows(q, r.end, x)
      /\ Kept(q.sess, q.idx, j)' /\ From(q.sess, q.idx)' = From(q.sess, q.idx)
  <2>1. BaseInv /\ BaseInv' /\ FileInv /\ FileInv'
    BY DEF InheritInv, ReadInv, StoreInv
  <2>2. QED
    BY <1>2, <1>3, <1>4, <2>1, ShowsStays
<1>6. CopyOK(r)'
  <2>1. /\ r.start = From(p.sess, p.idx)' /\ p.sess # r.sess
        /\ Kept(p.sess, p.idx, j)' /\ r.end <= From(p.sess, p.idx)' + j - 1
    BY <1>2, <1>3, <1>4, <1>5
  <2>2. QED
    BY <2>1 DEF CopyOK, Leads
<1>7. ASSUME NEW x PROVE x \in RecordSet(Cursor(r))' <=> x \in RecordSet(Cursor(r))
  <2>1. x \in RecordSet(Cursor(r)) <=> Shows(q, r.end, x)
    BY AllFollow DEF CursorsAre, InheritInv
  <2>2. x \in RecordSet(Cursor(r))' <=> Shows(Root(r), r.end, x)'
    BY AllFollowNext DEF CursorsAre
  <2>3. Shows(Root(r), r.end, x)' <=> Shows(p, r.end, x)'
    BY DEF Shows
  <2>4. Shows(p, r.end, x)' <=> Shows(q, r.end, x)'
    BY <1>2 DEF Shows
  <2>5. QED
    BY <1>5, <2>1, <2>2, <2>3, <2>4
<1>8. QED
  BY <1>6, <1>7

\* The copy of a row shows what the row shows below the fork point.
LEMMA ForkCopy ==
  ASSUME InheritInv, ReadInv', Moved, RowsLead, NEW p \in Session, NEW n \in Nat, NEW c \in Session, Fork(p, n, c),
         NEW g, NEW h, Rooted(g), Rooted(h)', NEW r \in Old(p, n), h[CopyId(p, n, r)] = g[r.id],
         NEW y, y = CopyOf(p, n, c, r)
  PROVE  /\ CopyOK(y)'
         /\ \A x : x \in RecordSet(Cursor(y))' <=> x \in RecordSet(Cursor(r)) /\ x.seq < n
<1> PICK q : q = Root(r)
  OBVIOUS
<1>1. r \in segments /\ y \in segments' /\ segments \subseteq segments'
  <2>1. r \in segments
    BY DEF Old
  <2>2. y \in Copy(p, n, c)
    BY DEF Copy
  <2>3. segments' = segments \cup Copy(p, n, c)
    BY ForkIs, Zenon
  <2>4. QED
    BY <2>1, <2>2, <2>3
<1>2. /\ r.end \in Nat /\ y.end \in Nat /\ y.end = (IF r.end <= n - 1 THEN r.end ELSE n - 1)
      /\ y.start = r.start /\ y.id = CopyId(p, n, r) /\ y.sess = c
  <2>1. /\ r \in SegmentRow /\ Min({r.end, n - 1}) \in Nat
        /\ Min({r.end, n - 1}) = IF r.end <= n - 1 THEN r.end ELSE n - 1
    BY OldIs DEF InheritInv, ReadInv, StoreInv, BaseInv
  <2>2. y.end = Min({r.end, n - 1}) /\ y.start = r.start /\ y.id = CopyId(p, n, r) /\ y.sess = c
    BY DEF CopyOf
  <2>3. QED
    BY <2>1, <2>2 DEF SegmentRow
<1>3. q \in segments /\ q.sess \in Session
  BY <1>1, RowsRoot DEF InheritInv
<1>4. Root(y)' = q
  <2>1. Root(y)' \in segments' /\ Root(y)'.id = h[y.id]
    BY <1>1, AllFollowNext DEF RootsAre
  <2>2. q.id = g[r.id]
    BY <1>1, AllFollow DEF RootsAre, InheritInv
  <2>3. QED
    BY <1>1, <1>2, <1>3, <2>1, <2>2 DEF ReadInv, StoreInv, BaseInv, IdsOK, RowsUnique
<1>5. q.sess # c
  BY <1>3, ForkIs, ChildIsNew DEF InheritInv, ReadInv, StoreInv
<1>6. PICK j : Kept(q.sess, q.idx, j) /\ r.end <= From(q.sess, q.idx) + j - 1
  BY <1>1, AllLead DEF Leads
<1>7. r.start = From(q.sess, q.idx)
  BY <1>1, AllLead DEF Leads
<1>8. j \in Nat /\ From(q.sess, q.idx) \in Nat
  <2> PICK k : k = q.idx
    OBVIOUS
  <2> PICK s \in Session : s = q.sess
    BY <1>3
  <2>1. k \in DOMAIN file[s] /\ j \in DOMAIN file[s][k]
    BY <1>6 DEF Kept
  <2>2. k \in Nat \ {0} /\ DOMAIN file[s][k] = 1 .. Len(file[s][k]) /\ Len(file[s][k]) \in Nat
    BY <2>1, FileType DEF InheritInv, ReadInv, StoreInv, BaseInv, StoreTypes
  <2>3. j \in Nat
    BY <2>1, <2>2
  <2>4. QED
    BY <2>2, <2>3, FromNext DEF InheritInv, ReadInv, StoreInv
<1>9. y.end <= From(q.sess, q.idx) + j - 1
  <2> PICK a : a = From(q.sess, q.idx)
    OBVIOUS
  <2>1. QED
    BY <1>2, <1>6, <1>8
<1>10. /\ \A x : Shows(q, y.end, x)' <=> Shows(q, y.end, x)
       /\ Kept(q.sess, q.idx, j)' /\ From(q.sess, q.idx)' = From(q.sess, q.idx)
  <2>1. BaseInv /\ BaseInv' /\ FileInv /\ FileInv'
    BY DEF InheritInv, ReadInv, StoreInv
  <2>2. QED
    BY <1>2, <1>3, <1>6, <1>9, <2>1, ShowsStays
<1>11. CopyOK(y)'
  <2>1. y.start = From(q.sess, q.idx)' /\ Kept(q.sess, q.idx, j)' /\ y.end <= From(q.sess, q.idx)' + j - 1
    BY <1>2, <1>7, <1>9, <1>10
  <2>2. QED
    BY <1>2, <1>4, <1>5, <2>1 DEF CopyOK, Leads
<1>12. ASSUME NEW x PROVE Shows(q, y.end, x) <=> Shows(q, r.end, x) /\ x.seq < n
  <2>1. ASSUME x.seq \in Nat PROVE x.seq <= y.end <=> x.seq <= r.end /\ x.seq < n
    BY <1>2, <2>1
  <2>2. ASSUME Shows(q, r.end, x) PROVE x.seq \in Nat
    BY <1>1, <2>2, ShownAre DEF InheritInv
  <2>3. Shows(q, y.end, x) => Shows(q, r.end, x)
    <3> SUFFICES ASSUME Shows(q, y.end, x) PROVE Shows(q, r.end, x)
      OBVIOUS
    <3>1. PICK i : Rec(q.sess, q.idx, i, x.ev) /\ x = file[q.sess][q.idx][i] /\ x.seq <= y.end
      BY DEF Shows
    <3> PICK s \in Session : s = q.sess
      BY <1>3
    <3>2. q.idx \in DOMAIN file[s] /\ i \in DOMAIN file[s][q.idx]
      BY <3>1 DEF Rec
    <3>3. file[s][q.idx][i] \in Item(Len(log))
      BY <3>2, FileType DEF InheritInv, ReadInv, StoreInv, BaseInv, StoreTypes
    <3>4. x.seq \in Nat
      BY <3>1, <3>3 DEF Item
    <3>5. QED
      BY <2>1, <3>1, <3>4 DEF Shows
  <2>4. QED
    BY <2>1, <2>2, <2>3 DEF Shows
<1>13. ASSUME NEW x PROVE x \in RecordSet(Cursor(y))' <=> x \in RecordSet(Cursor(r)) /\ x.seq < n
  <2>1. x \in RecordSet(Cursor(r)) <=> Shows(q, r.end, x)
    BY <1>1, AllFollow DEF CursorsAre, InheritInv
  <2>2. x \in RecordSet(Cursor(y))' <=> Shows(Root(y), y.end, x)'
    BY <1>1, AllFollowNext DEF CursorsAre
  <2>3. Shows(Root(y), y.end, x)' <=> Shows(q, y.end, x)'
    BY <1>4 DEF Shows
  <2>4. QED
    BY <1>10, <1>12, <2>1, <2>2, <2>3
<1>14. QED
  BY <1>11, <1>13

LEMMA ForkInherits ==
  ASSUME InheritInv, ReadInv', Moved, NEW p \in Session, NEW n \in Nat, NEW c \in Session, Fork(p, n, c)
  PROVE  CopiesOK' /\ SeenIs'
<1>1. PICK g, h : /\ Rooted(g) /\ Rooted(h)' /\ \A r \in segments : h[r.id] = g[r.id]
                  /\ \A r \in Old(p, n) : h[CopyId(p, n, r)] = g[r.id]
  BY ForkForest DEF InheritInv, ReadInv, StoreInv
<1>2. /\ segments' = segments \cup Copy(p, n, c) /\ file[c] = <<>> /\ cur[c] = NoState
      /\ base' = [base EXCEPT ![c] = [from |-> n, seen |-> {x \in Replay(p) : x.seq < n}]]
  <2>1. segments' = segments \cup Copy(p, n, c)
    BY ForkIs, Zenon
  <2>2. file[c] = <<>> /\ cur[c] = NoState
    BY ForkIs, Zenon
  <2>3. base' = [base EXCEPT ![c] = [from |-> n, seen |-> {x \in Replay(p) : x.seq < n}]]
    BY DEF Fork
  <2>4. QED
    BY <2>1, <2>2, <2>3
<1>3. RowsLead
  <2>1. RootsKept
    BY <1>1 DEF RootsKept
  <2>2. QED
    BY <1>2, <2>1 DEF RowsLead, SameRow
<1>4. \A r \in segments : r.sess # c
  BY <1>2, ChildIsNew DEF InheritInv, ReadInv, StoreInv
<1>5. ASSUME NEW r \in Old(p, n), NEW y, y = CopyOf(p, n, c, r)
      PROVE  /\ CopyOK(y)' /\ y \in segments' /\ y.sess = c /\ y.parent # 0
             /\ \A x : x \in RecordSet(Cursor(y))' <=> x \in RecordSet(Cursor(r)) /\ x.seq < n
  <2>1. y.sess = c /\ y.parent = r.id /\ y \in Copy(p, n, c)
    BY <1>5 DEF CopyOf, Copy
  <2>2. r \in segments
    BY DEF Old
  <2>3. Stands(r.id, r.sess, r.idx, r.parent)
    BY <2>2 DEF Stands, InIndex
  <2>4. r.id # 0
    BY <2>3 DEF InheritInv, ReadInv, StoreInv, BaseInv, IdsOK, IdsBelow
  <2>5. QED
    BY <1>1, <1>2, <1>3, <1>5, <2>1, <2>4, ForkCopy
<1>6. ASSUME NEW r \in segments, r.parent # 0
      PROVE  CopyOK(r)' /\ \A x : x \in RecordSet(Cursor(r))' <=> x \in RecordSet(Cursor(r))
  BY <1>2, <1>3, <1>6, CopyStays
<1>7. CopiesOK'
  BY <1>2, <1>5, <1>6 DEF CopiesOK, Copy
<1>8. ASSUME NEW s \in Session, s # c, NEW x
      PROVE  x \in base'[s].seen <=> \E r \in CopiedRows(s)' : x \in RecordSet(Cursor(r))'
  <2>1. base'[s] = base[s]
    BY <1>2, <1>8 DEF InheritInv, ReadInv, StoreInv, BaseInv, StoreTypes, GhostOK
  <2>2. \A r : r \in CopiedRows(s)' <=> r \in CopiedRows(s)
    BY <1>2, <1>5, <1>8 DEF CopiedRows, Copy
  <2>3. \A r \in CopiedRows(s) : x \in RecordSet(Cursor(r))' <=> x \in RecordSet(Cursor(r))
    BY <1>6 DEF CopiedRows
  <2>4. QED
    BY <2>1, <2>2, <2>3 DEF InheritInv, SeenIs
<1>9. ASSUME NEW x PROVE x \in base'[c].seen <=> \E r \in CopiedRows(c)' : x \in RecordSet(Cursor(r))'
  <2>1. base'[c].seen = {z \in Replay(p) : z.seq < n}
    <3> DEFINE new == [from |-> n, seen |-> {z \in Replay(p) : z.seq < n}]
    <3>1. DOMAIN base = Session /\ base' = [base EXCEPT ![c] = new]
      BY <1>2 DEF InheritInv, ReadInv, StoreInv, BaseInv, StoreTypes, GhostOK
    <3>2. new.seen = {z \in Replay(p) : z.seq < n}
      OBVIOUS
    <3> HIDE DEF new
    <3>3. base'[c] = new
      BY <3>1
    <3>4. QED
      BY <3>2, <3>3
  <2>2. \A y : y \in CopiedRows(c)' <=> \E r \in Old(p, n) : y = CopyOf(p, n, c, r)
    BY <1>2, <1>4, <1>5 DEF CopiedRows, Copy
  <2>3. (\E y \in CopiedRows(c)' : x \in RecordSet(Cursor(y))') <=>
          \E r \in Old(p, n) : x \in RecordSet(Cursor(r)) /\ x.seq < n
    BY <1>5, <2>2
  <2>4. ASSUME NEW r \in segments, x \in RecordSet(Cursor(r)), x.seq < n PROVE r.start < n
    <3>1. Shows(Root(r), r.end, x)
      BY <2>4, AllFollow DEF CursorsAre, InheritInv
    <3>2. r.start = From(Root(r).sess, Root(r).idx)
      BY AllLead DEF Leads
    <3>3. x.seq \in Nat /\ x.seq >= r.start /\ r.start \in Nat
      BY <3>1, <3>2, ShownAre DEF InheritInv
    <3>4. QED
      BY <2>4, <3>3
  <2>5. x \in Replay(p) <=> \E r \in segments : r.sess = p /\ x \in RecordSet(Cursor(r))
    BY DEF Replay
  <2>6. (x \in Replay(p) /\ x.seq < n) <=> \E r \in Old(p, n) : x \in RecordSet(Cursor(r)) /\ x.seq < n
    BY <2>4, <2>5 DEF Old
  <2>7. QED
    BY <2>1, <2>3, <2>6
<1>10. QED
  BY <1>7, <1>8, <1>9 DEF SeenIs

LEMMA InheritNext ==
  ASSUME InheritInv, ~IoErrors, [Next]_vars
  PROVE  InheritInv'
<1>1. ReadInv'
  BY ReadNext DEF InheritInv
<1>2. Moved
  BY <1>1, MovedStep DEF InheritInv, ReadInv, StoreInv
<1>3. ASSUME NEW p \in Session, NEW c \in Session, NEW n \in 0 .. MaxEvents, Fork(p, n, c) PROVE CopiesOK' /\ SeenIs'
  <2>1. n \in Nat
    BY SessionStoreAssumption
  <2>2. QED
    BY <1>1, <1>2, <1>3, <2>1, ForkInherits
<1>4. ASSUME ~\E p, c \in Session, n \in 0 .. MaxEvents : Fork(p, n, c) PROVE CopiesOK' /\ SeenIs'
  <2>1. CopiesStay
    BY <1>4, CopiesStep DEF InheritInv, ReadInv, StoreInv
  <2>2. base' = base
    BY <1>4, GhostStep DEF InheritInv, ReadInv, StoreInv
  <2>3. ASSUME NEW r, r \in segments', r.parent # 0
        PROVE  r \in segments /\ CopyOK(r)' /\ \A x : x \in RecordSet(Cursor(r))' <=> x \in RecordSet(Cursor(r))
    BY <1>1, <1>2, <2>1, <2>3, CopyStays DEF CopiesStay
  <2>4. CopiesOK'
    BY <2>3 DEF CopiesOK
  <2>5. ASSUME NEW s \in Session, NEW x
        PROVE  x \in base'[s].seen <=> \E r \in CopiedRows(s)' : x \in RecordSet(Cursor(r))'
    <3>1. \A r : r \in CopiedRows(s)' <=> r \in CopiedRows(s)
      BY <2>1 DEF CopiedRows, CopiesStay
    <3>2. \A r \in CopiedRows(s)' : x \in RecordSet(Cursor(r))' <=> x \in RecordSet(Cursor(r))
      BY <2>3 DEF CopiedRows
    <3>3. QED
      BY <2>2, <3>1, <3>2 DEF InheritInv, SeenIs
  <2>6. QED
    BY <2>4, <2>5 DEF SeenIs
<1>5. QED
  BY <1>1, <1>3, <1>4 DEF InheritInv

LEMMA InheritInit ==
  Init => InheritInv
<1> SUFFICES ASSUME Init PROVE InheritInv
  OBVIOUS
<1>1. segments = {} /\ \A s \in Session : base[s].seen = {}
  BY DEF Init
<1>2. CopiesOK /\ SeenIs
  BY <1>1 DEF CopiesOK, SeenIs, CopiedRows
<1>3. QED
  BY <1>2, ReadInit DEF InheritInv

\* The own rows show the own events, the copied ones those of other sessions.
LEMMA InheritedIsSeen ==
  InheritInv => ForkSeesPrefix
<1> SUFFICES ASSUME InheritInv, NEW s \in Session, NEW x
             PROVE  x \in Replay(s) /\ log[x.ev] # s <=> x \in base[s].seen
  BY DEF ForkSeesPrefix
<1>1. x \in Replay(s) <=> \E r \in segments : r.sess = s /\ x \in RecordSet(Cursor(r))
  BY DEF Replay
<1>2. ASSUME NEW r \in segments, x \in RecordSet(Cursor(r)) PROVE log[x.ev] = Root(r).sess
  <2>1. Shows(Root(r), r.end, x)
    BY <1>2, AllFollow DEF CursorsAre, InheritInv
  <2>2. QED
    BY <2>1, ShownAre DEF InheritInv
<1>3. \A r \in segments : r.parent = 0 => Root(r).sess = r.sess
  BY RowsRoot DEF InheritInv
<1>4. \A r \in segments : r.parent # 0 => Root(r).sess # r.sess
  BY DEF InheritInv, CopiesOK, CopyOK
<1>5. x \in base[s].seen <=> \E r \in segments : r.sess = s /\ r.parent # 0 /\ x \in RecordSet(Cursor(r))
  BY DEF InheritInv, SeenIs, CopiedRows
<1>6. QED
  BY <1>1, <1>2, <1>3, <1>4, <1>5

\* As long as writes, fsyncs and the index work, a forked session replays
\* exactly what replay of its parent showed below the fork point, however many
\* flushes overlap, forks follow on forks, and the process dies or repairs the
\* index in between.
THEOREM ForkSeesPrefixProved ==
  ASSUME ~IoErrors
  PROVE  Spec => []ForkSeesPrefix
BY InheritInit, InheritNext, InheritedIsSeen, PTL DEF Spec

-----------------------------------------------------------------------------
(* persist_turn.                                                           *)

\* The call of flush that ends a turn moves nothing.
LEMMA PersistFlushStep ==
  ASSUME StoreInv, NEW f \in Flusher, PersistFlush(f)
  PROVE  StoreInv' /\ Moved /\ log' = log
<1> USE DEF memVars, diskVars, indexVars, ghostVars
<1>1. /\ fpc[f] = "idle" /\ fpc' = [fpc EXCEPT ![f] = "take"]
      /\ UNCHANGED <<log, pending, cur, lock, lastOff, groups, sess, metas, rows>>
      /\ UNCHANGED <<file, dirty, segments, events, nextId, base, ok, forks, crashes>>
  BY DEF PersistFlush
<1>2. StoreTypes'
  <2>1. QueueOK' /\ FlushOK'
    BY <1>1 DEF StoreInv, BaseInv, StoreTypes, QueueOK, FlushOK, PCs
  <2>2. LockOK' /\ WritingOK'
    BY <1>1 DEF StoreInv, BaseInv, StoreTypes, LockOK, WritingOK, FlushOK
  <2>3. FilesOK' /\ OpenOK' /\ IndexOK' /\ GhostOK'
    BY <1>1 DEF StoreInv, BaseInv, StoreTypes, FilesOK, OpenOK, IndexOK, GhostOK
  <2>4. QED
    BY <2>1, <2>2, <2>3 DEF StoreTypes
<1>3. BaseInv'
  BY <1>1, <1>2, NoIds, SameFiles DEF StoreInv, BaseInv
<1>4. FileInv' /\ \A s \in Session : StaysPut(s)
  BY <1>1, QuietFits DEF StoreInv
<1>5. Moved
  BY <1>1, <1>4 DEF Moved
<1>6. RowsOK'
  BY <1>1, <1>5, QuietRows DEF StoreInv
<1>7. KeysOK'
  <2>1. \A g \in Flusher : (fpc'[g] = "confirm") <=> (fpc[g] = "confirm")
    BY <1>1 DEF StoreInv, BaseInv, StoreTypes, FlushOK
  <2>2. QED
    BY <1>1, <2>1, QuietKeys DEF StoreInv
<1>8. OnceOK'
  BY <1>1, OnceSame DEF StoreInv
<1>9. QueueOnce' /\ SeenOK' /\ OkKnown'
  BY <1>1 DEF StoreInv, QueueOnce, SeenOK, OkKnown, Known
<1>10. QED
  BY <1>1, <1>3, <1>4, <1>5, <1>6, <1>7, <1>8, <1>9 DEF StoreInv

\* Every other step is one of the store, or leaves it alone.
LEMMA TurnStep ==
  ASSUME StoreInv, ~IoErrors, [TurnNext]_allVars
  PROVE  StoreInv' /\ Moved /\ LogGrows
<1>1. ASSUME NEW f \in Flusher, PersistFlush(f)
      PROVE  StoreInv' /\ Moved /\ LogGrows
  <2>1. StoreInv' /\ Moved /\ log' = log
    BY <1>1, PersistFlushStep
  <2>2. QED
    BY <2>1 DEF LogGrows, StoreInv, BaseInv, StoreTypes, QueueOK
<1>2. ASSUME [Next]_vars PROVE StoreInv' /\ Moved /\ LogGrows
  <2>1. StoreInv'
    BY <1>2, WholeNext
  <2>2. Moved
    BY <1>2, <2>1, MovedStep DEF StoreInv
  <2>3. LogGrows
    BY <1>2, GhostStep DEF StoreInv
  <2>4. QED
    BY <2>1, <2>2, <2>3
<1>3. ASSUME NEW f \in Flusher, NEW s \in Session, PersistAppend(f, s) PROVE [Next]_vars
  BY <1>3 DEF PersistAppend, Next
<1>4. ASSUME NEW f \in Flusher, PersistAnswer(f) PROVE [Next]_vars
  BY <1>4 DEF PersistAnswer
<1>5. ASSUME NEW f \in Flusher, StoreStep(f) PROVE [Next]_vars
  BY <1>5 DEF StoreStep, Next
<1>6. CASE TurnCrash
  <2>1. [Next]_vars
    BY <1>6 DEF TurnCrash, Next
  <2>2. QED
    BY <1>2, <2>1
<1>7. CASE UNCHANGED allVars
  <2>1. [Next]_vars
    BY <1>7 DEF allVars
  <2>2. QED
    BY <1>2, <2>1
<1>8. CASE OtherUse
  <2>1. [Next]_vars
    BY <1>8 DEF OtherUse, Next
  <2>2. QED
    BY <1>2, <2>1
<1>9. QED
  BY <1>1, <1>2, <1>3, <1>4, <1>5, <1>6, <1>7, <1>8 DEF TurnNext

\* A turn under way has appended its event.
TurnsBegun == turn \in [Flusher -> 0 .. Len(log)]

\* An answer is the offset of a record on disk for good.
Answered(a) ==
  /\ a.ev \in 1 .. Len(log)
  /\ \E k, i \in Nat : Kept(log[a.ev], k, i) /\ file[log[a.ev]][k][i].seq = a.off

AnswersOK == \A a \in answers : Answered(a)

LEMMA TurnsNext ==
  ASSUME StoreInv, StoreInv', TurnsBegun, [TurnNext]_allVars, LogGrows
  PROVE  TurnsBegun'
<1>1. Len(log) \in Nat /\ Len(log') \in Nat /\ log \in Seq(Session)
  BY DEF StoreInv, BaseInv, StoreTypes, QueueOK
<1>2. turn \in [Flusher -> 0 .. Len(log')] /\ 0 \in 0 .. Len(log')
  BY <1>1 DEF TurnsBegun, LogGrows
<1>3. ASSUME NEW f \in Flusher, NEW s \in Session, PersistAppend(f, s) PROVE TurnsBegun'
  <2>1. log' = Append(log, s) /\ turn' = [turn EXCEPT ![f] = Len(log) + 1]
    BY <1>3 DEF PersistAppend, AppendEvent
  <2>2. Len(log) + 1 \in 0 .. Len(log')
    BY <1>1, <2>1
  <2>3. QED
    BY <1>2, <2>1, <2>2 DEF TurnsBegun
<1>4. ASSUME NEW f \in Flusher, PersistFlush(f) \/ PersistAnswer(f) \/ StoreStep(f) PROVE TurnsBegun'
  <2>1. turn' = turn \/ turn' = [turn EXCEPT ![f] = 0]
    BY <1>4 DEF PersistFlush, PersistAnswer, StoreStep
  <2>2. QED
    BY <1>2, <2>1 DEF TurnsBegun
<1>5. CASE TurnCrash
  BY <1>2, <1>5 DEF TurnCrash, TurnsBegun
<1>6. CASE UNCHANGED allVars
  BY <1>2, <1>6 DEF allVars, turnVars, TurnsBegun
<1>7. CASE OtherUse
  BY <1>2, <1>7 DEF OtherUse, turnVars, TurnsBegun
<1>8. QED
  BY <1>3, <1>4, <1>5, <1>6, <1>7 DEF TurnNext

\* Only persist_turn answers, and what it answers is noted by a flush.
LEMMA AnswersNext ==
  ASSUME StoreInv, StoreInv', TurnsBegun, AnswersOK, Moved, [TurnNext]_allVars, LogGrows
  PROVE  AnswersOK'
<1>1. Len(log) \in Nat /\ Len(log') \in Nat /\ log \in Seq(Session)
  BY DEF StoreInv, BaseInv, StoreTypes, QueueOK
<1>2. ASSUME NEW a, Answered(a) PROVE Answered(a)'
  <2>1. a.ev \in 1 .. Len(log) /\ a.ev \in 1 .. Len(log') /\ log'[a.ev] = log[a.ev] /\ log[a.ev] \in Session
    BY <1>1, <1>2 DEF Answered, LogGrows
  <2>2. PICK s \in Session : s = log[a.ev]
    BY <2>1
  <2>3. PICK k, i \in Nat : Kept(s, k, i) /\ file[s][k][i].seq = a.off
    BY <1>2, <2>2 DEF Answered
  <2>4. Kept(s, k, i)' /\ file'[s][k][i].seq = a.off
    BY <2>3 DEF Moved, StaysPut
  <2>5. QED
    BY <2>1, <2>2, <2>4 DEF Answered
<1>3. CASE answers' = answers
  BY <1>2, <1>3 DEF AnswersOK
<1>4. ASSUME NEW f \in Flusher, PersistAnswer(f) PROVE AnswersOK'
  <2> DEFINE s == log[turn[f]]
             a == [ev |-> turn[f], off |-> lastOff[s] - 1]
  <2>1. answers' = answers \/ (answers' = answers \cup {a} /\ lastOff[s] # 0)
    BY <1>4 DEF PersistAnswer
  <2>2. turn[f] \in 1 .. Len(log) /\ s \in Session
    <3>1. turn[f] \in 0 .. Len(log) /\ turn[f] # 0
      BY <1>4 DEF PersistAnswer, TurnsBegun
    <3>2. turn[f] \in 1 .. Len(log)
      BY <1>1, <3>1
    <3>3. QED
      BY <1>1, <3>2
  <2>3. ASSUME lastOff[s] # 0 PROVE Answered(a)
    <3>1. lastOff[s] \in Nat /\ Noted(s)
      BY <2>2 DEF StoreInv, BaseInv, StoreTypes, IndexOK, RowsOK, OffsetsNoted
    <3>2. PICK k, i \in Nat : Kept(s, k, i) /\ file[s][k][i].seq + 1 = lastOff[s]
      BY <2>3, <3>1 DEF Noted
    <3>3. file[s][k][i].seq \in Nat
      <4>1. file[s][k][i] \in Item(Len(log))
        BY <2>2, <3>2, FileType DEF Kept, StoreInv, BaseInv, StoreTypes
      <4>2. QED
        BY <4>1 DEF Item
    <3>4. file[s][k][i].seq = lastOff[s] - 1
      BY <3>1, <3>2, <3>3
    <3>5. QED
      BY <2>2, <3>2, <3>4 DEF Answered
  <2> HIDE DEF a, s
  <2>4. QED
    BY <1>2, <2>1, <2>3 DEF AnswersOK
<1>5. QED
  BY <1>3, <1>4 DEF TurnNext, PersistAppend, PersistFlush, StoreStep, OtherUse, TurnCrash, allVars, turnVars

\* An offset that persist_turn has returned stays the offset of a record of
\* that session which no crash can take away, as long as writes, fsyncs and the
\* index work, whatever other turns, flushes and crashes come in between.
THEOREM AnswerIsDurableProved ==
  ASSUME ~IoErrors
  PROVE  TurnSpec => []AnswerIsDurable
<1> DEFINE I == StoreInv /\ TurnsBegun /\ AnswersOK
<1>1. TurnInit => I
  <2> SUFFICES ASSUME TurnInit PROVE I
    OBVIOUS
  <2>1. StoreInv
    BY WholeInit DEF TurnInit
  <2>2. Len(log) \in Nat
    BY <2>1 DEF StoreInv, BaseInv, StoreTypes, QueueOK
  <2>3. TurnsBegun /\ AnswersOK
    BY <2>2 DEF TurnInit, TurnsBegun, AnswersOK
  <2>4. QED
    BY <2>1, <2>3
<1>2. I /\ [TurnNext]_allVars => I'
  BY TurnStep, TurnsNext, AnswersNext
<1>3. I => AnswerIsDurable
  <2> SUFFICES ASSUME I, NEW a \in answers
               PROVE  \E x \in Durable(log[a.ev]) : x.seq = a.off /\ log[x.ev] = log[a.ev]
    BY DEF AnswerIsDurable
  <2>1. a.ev \in 1 .. Len(log) /\ log[a.ev] \in Session
    BY DEF AnswersOK, Answered, StoreInv, BaseInv, StoreTypes, QueueOK
  <2>2. PICK s \in Session : s = log[a.ev]
    BY <2>1
  <2>3. PICK k, i \in Nat : Kept(s, k, i) /\ file[s][k][i].seq = a.off
    BY <2>2 DEF AnswersOK, Answered
  <2>4. file[s][k][i] \in Durable(s)
    BY <2>3, KeptIsDurable DEF StoreInv
  <2>5. Rec(s, k, i, file[s][k][i].ev)
    BY <2>3 DEF Kept, Rec
  <2>6. log[file[s][k][i].ev] = s
    BY <2>5 DEF StoreInv, OnceOK, RecordsOwn
  <2>7. QED
    BY <2>2, <2>3, <2>4, <2>6
<1> HIDE DEF I
<1>4. QED
  BY <1>1, <1>2, <1>3, PTL DEF TurnSpec
=============================================================================
