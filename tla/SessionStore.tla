---------------------------- MODULE SessionStore ----------------------------
(***************************************************************************)
(* The session event store (crates/session-store): callers append events   *)
(* to a pending queue (writer.rs), flush_sync calls running on blocking    *)
(* threads write them to append-only segment files (segment.rs) under the  *)
(* sessions mutex and then, outside of it, to the SQLite index (tree.rs).  *)
(* replay.rs and read_events read them back.                               *)
(*                                                                         *)
(* An event is its position in log, the order in which append accepted     *)
(* the events; log[e] is its session.  Segment indexes start at 1 here     *)
(* (0 in the code).  A record whose ev is 0 stands for the bytes of an     *)
(* incomplete record.                                                      *)
(***************************************************************************)
EXTENDS Naturals, Sequences, FiniteSets, FiniteSetsExt, Ordering

CONSTANTS
  Session,     \* session ids, those that fork generates included
  Flusher,     \* the tasks that append and flush, the flush loop included
  Nobody,      \* the sessions mutex is free
  MaxRows,     \* config.max_rows_per_segment
  BatchSize,   \* config.batch_size
  Refusals,    \* may the sensitive-data scan refuse a batch?
  IoErrors,    \* may write_all, sync_all or SQLite fail?
  MaxEvents,   \* bound: events appended
  MaxForks,    \* bound: fork_session calls that succeed
  MaxCrashes   \* bound: crashes of the process

ASSUME SessionStoreAssumption ==
  /\ Nobody \notin Flusher
  /\ MaxRows \in Nat \ {0} /\ BatchSize \in Nat \ {0}
  /\ Refusals \in BOOLEAN /\ IoErrors \in BOOLEAN
  /\ MaxEvents \in Nat /\ MaxForks \in Nat /\ MaxCrashes \in Nat

VARIABLES
  log,       \* the session of every event append has accepted
  pending,   \* CbmrInner.pending
  cur,       \* CbmrInner.sessions: SessionState, or NoState
  lock,      \* who holds the sessions mutex
  lastOff,   \* CbmrInner.last_offset_by_session: 0 for none, else the seq + 1
  fpc,       \* where each flusher is
  groups,    \* its batch, by session
  sess,      \* the session it is writing
  metas,     \* the SegmentMeta it will insert
  rows,      \* the EventRow it will insert
  file,      \* the segment files of each session
  dirty,     \* records at the end of the open file that are not fsynced yet
  segments,  \* the segments table
  events,    \* the events table
  nextId,    \* fresh segment ids
  base,      \* fork point of each session and (ghost) what its parent showed below it
  forks,     \* forks so far
  ok,        \* events of a flush_sync that has returned Ok
  crashes    \* crashes so far

memVars   == <<pending, cur, lock, lastOff>>
flushVars == <<fpc, groups, sess, metas, rows>>
diskVars  == <<file, dirty>>
indexVars == <<segments, events, nextId>>
ghostVars == <<base, forks, ok, crashes>>
vars == <<log, memVars, flushVars, diskVars, indexVars, ghostVars>>

NoState == [idx |-> 0, row |-> 0, next |-> 0, first |-> 0, id |-> 0]
NoGroups == [s \in Session |-> <<>>]

-----------------------------------------------------------------------------
(* Segment files.                                                          *)

Torn == [seq |-> 0, row |-> 0, ev |-> 0]

\* What SegmentFileReader returns: the records before incomplete bytes.
Clean(items) ==
  LET cut == {i \in DOMAIN items : items[i].ev = 0}
  IN IF cut = {} THEN items ELSE SubSeq(items, 1, Min(cut) - 1)

\* recover_tail: every complete record must have the expected seq and row.
Consecutive(items, first) ==
  \A i \in DOMAIN items : items[i].seq = first + i - 1 /\ items[i].row = i - 1

\* Complete records after incomplete bytes: the next length prefix is read
\* from the middle of a record.
Garbled(items) == \E i, j \in DOMAIN items : i < j /\ items[i].ev = 0 /\ items[j].ev # 0

\* Mutant: the file is opened with truncate(true).
OpenedTruncates(s, k, first, id) ==
  /\ file' = [file EXCEPT ![s] = IF k <= Len(@) THEN [@ EXCEPT ![k] = <<>>]
                                 ELSE Append(@, <<>>)]
  /\ cur' = [cur EXCEPT ![s] = [idx |-> k, row |-> 0, next |-> first, first |-> first,
                                id |-> id]]

\* open_or_create opens segment k: recover_tail cuts an incomplete tail off.
Opened(s, k, first, id) ==
  LET old == IF k <= Len(file[s]) THEN file[s][k] ELSE <<>>
      kept == Clean(old)
  IN /\ Consecutive(kept, first)
     /\ file' = [file EXCEPT ![s] = IF k <= Len(@) THEN [@ EXCEPT ![k] = kept]
                                    ELSE Append(@, <<>>)]
     /\ cur' = [cur EXCEPT ![s] = [idx |-> k, row |-> Len(kept),
                                   next |-> first + Len(kept), first |-> first,
                                   id |-> id]]

\* open_or_create returns Io, OffsetMismatch or WalCorrupt.
OpenFails(s, k, first) ==
  \/ IoErrors
  \/ k <= Len(file[s]) /\ (~Consecutive(Clean(file[s][k]), first) \/ Garbled(file[s][k]))

Filled(s) == {k \in DOMAIN file[s] : Clean(file[s][k]) # <<>>}
OwnRows(s) == {r \in segments : r.sess = s /\ r.parent = 0}
CopiedRows(s) == {r \in segments : r.sess = s /\ r.parent # 0}

\* fork_point
ForkPoint(s) ==
  IF CopiedRows(s) = {} THEN 0 ELSE Max({r.end : r \in CopiedRows(s)}) + 1

\* Mutant: a session without records always starts at 0.
StartSeqZero(s) == IF \E k \in DOMAIN file[s] : Clean(file[s][k]) # <<>>
                   THEN file[s][Max(Filled(s))][1].seq ELSE 0

\* recover_session_state: the last segment with a record and its first seq.
LastSegment(s) == IF Filled(s) = {} THEN 1 ELSE Max(Filled(s))
StartSeq(s) == IF Filled(s) = {} THEN ForkPoint(s) ELSE file[s][LastSegment(s)][1].seq

\* segment_id_for, or a fresh id.
SegmentId(s, k) ==
  IF \E r \in OwnRows(s) : r.idx = k
  THEN (CHOOSE r \in OwnRows(s) : r.idx = k).id
  ELSE nextId

Meta(s, st) ==
  [id |-> st.id, sess |-> s, idx |-> st.idx, parent |-> 0, start |-> st.first,
   end |-> IF st.row = 0 THEN st.first ELSE st.next - 1]

-----------------------------------------------------------------------------
(* append and flush_sync.                                                  *)

\* The event is queued; a full queue makes the caller flush.
AppendEvent(f, s) ==
  /\ fpc[f] = "idle"
  /\ Len(log) < MaxEvents
  /\ log' = Append(log, s)
  /\ pending' = Append(pending, Len(log) + 1)
  /\ fpc' = [fpc EXCEPT ![f] = IF Len(pending) + 1 >= BatchSize THEN "take" ELSE "idle"]
  /\ UNCHANGED <<cur, lock, lastOff, groups, sess, metas, rows, diskVars, indexVars,
                 ghostVars>>

\* The events of s in the queue, in the order they have there.
Queued(s) == LET at == Ascending({i \in DOMAIN pending : log[pending[i]] = s})
             IN  [i \in DOMAIN at |-> pending[at[i]]]

\* Mutant: only a full batch is taken, also by the flush loop.
TakeBatchFull(f) ==
  /\ fpc[f] \in {"idle", "take"}
  /\ Len(pending) >= BatchSize
  /\ groups' = [groups EXCEPT ![f] = [s \in Session |-> Queued(s)]]
  /\ pending' = <<>>
  /\ fpc' = [fpc EXCEPT ![f] = "group"]
  /\ UNCHANGED <<log, cur, lock, lastOff, sess, metas, rows, diskVars, indexVars,
                 ghostVars>>

\* The batch is taken (by a full queue, the flush loop or an explicit
\* flush) and grouped by session.
TakeBatch(f) ==
  /\ fpc[f] \in {"idle", "take"}
  /\ pending # <<>>
  /\ groups' = [groups EXCEPT ![f] = [s \in Session |-> Queued(s)]]
  /\ pending' = <<>>
  /\ fpc' = [fpc EXCEPT ![f] = "group"]
  /\ UNCHANGED <<log, cur, lock, lastOff, sess, metas, rows, diskVars, indexVars,
                 ghostVars>>

\* Nothing is pending: flush returns Ok.
FlushNothing(f) ==
  /\ fpc[f] \in {"idle", "take"}
  /\ pending = <<>>
  /\ fpc' = [fpc EXCEPT ![f] = "idle"]
  /\ UNCHANGED <<log, memVars, groups, sess, metas, rows, diskVars, indexVars,
                 ghostVars>>

\* Mutant: an error path that keeps the sessions mutex.
FlushFailsLocked(f) ==
  /\ fpc' = [fpc EXCEPT ![f] = "idle"]
  /\ groups' = [groups EXCEPT ![f] = NoGroups]
  /\ metas' = [metas EXCEPT ![f] = <<>>]
  /\ rows' = [rows EXCEPT ![f] = {}]
  /\ UNCHANGED <<log, memVars, sess, dirty, indexVars, ghostVars>>

\* flush_sync returns Err: the mutex is released, the batch is gone.
FlushFails(f) ==
  /\ fpc' = [fpc EXCEPT ![f] = "idle"]
  /\ groups' = [groups EXCEPT ![f] = NoGroups]
  /\ metas' = [metas EXCEPT ![f] = <<>>]
  /\ rows' = [rows EXCEPT ![f] = {}]
  /\ lock' = IF lock = f THEN Nobody ELSE lock
  /\ UNCHANGED <<log, pending, cur, lastOff, sess, dirty, indexVars, ghostVars>>

\* Under the mutex the next session is looked up, or recovered from disk.
OpenGroup(f, s) ==
  /\ fpc[f] = "group"
  /\ lock \in {Nobody, f}
  /\ groups[f][s] # <<>>
  /\ \/ /\ IF cur[s] # NoState
           THEN UNCHANGED <<cur, file, nextId>>
           ELSE LET k == LastSegment(s) IN
                /\ Opened(s, k, StartSeq(s), SegmentId(s, k))
                /\ nextId' = IF SegmentId(s, k) = nextId THEN nextId + 1 ELSE nextId
        /\ lock' = f
        /\ fpc' = [fpc EXCEPT ![f] = "write"]
        /\ sess' = [sess EXCEPT ![f] = s]
        /\ UNCHANGED <<log, pending, lastOff, groups, metas, rows, dirty, segments, events,
                       ghostVars>>
     \/ /\ cur[s] = NoState
        /\ OpenFails(s, LastSegment(s), StartSeq(s))
        /\ FlushFails(f)
        /\ UNCHANGED file

\* The segment is full: its metadata is kept for the index and the next one
\* is opened.
Roll(f) ==
  LET s == sess[f]
      st == cur[s]
  IN /\ fpc[f] = "write"
     /\ st.row >= MaxRows
     /\ \/ /\ Opened(s, st.idx + 1, st.next, nextId)
           /\ nextId' = nextId + 1
           /\ metas' = [metas EXCEPT ![f] = Append(@, Meta(s, st))]
           /\ UNCHANGED <<log, pending, lock, lastOff, fpc, groups, sess, rows, dirty,
                          segments, events, ghostVars>>
        \/ /\ OpenFails(s, st.idx + 1, st.next)
           /\ FlushFails(f)
           /\ UNCHANGED file

\* Mutant: the room left in the segment is ignored.
TakeAll(f) == Len(groups[f][sess[f]])

\* How many events fit into the segment.
Take(f) == Min({MaxRows - cur[sess[f]].row, Len(groups[f][sess[f]])})

\* The records append_batch writes for the first n events of the group.
Records(f, n) ==
  LET st == cur[sess[f]]
  IN [i \in 1 .. n |-> [seq |-> st.next + i - 1, row |-> st.row + i - 1,
                        ev |-> groups[f][sess[f]][i]]]

\* append_batch: write_all.
Write(f) ==
  LET s == sess[f]
  IN /\ fpc[f] = "write"
     /\ cur[s].row < MaxRows
     /\ file' = [file EXCEPT ![s][cur[s].idx] = @ \o Records(f, Take(f))]
     /\ dirty' = [dirty EXCEPT ![s] = @ + Take(f)]
     /\ fpc' = [fpc EXCEPT ![f] = "sync"]
     /\ UNCHANGED <<log, memVars, groups, sess, metas, rows, indexVars, ghostVars>>

\* The scan finds a secret in the batch: nothing is written.
Refuse(f) ==
  /\ Refusals
  /\ fpc[f] = "write"
  /\ cur[sess[f]].row < MaxRows
  /\ FlushFails(f)
  /\ UNCHANGED file

\* write_all fails after some of the bytes.
WriteFails(f) ==
  LET s == sess[f]
  IN /\ IoErrors
     /\ fpc[f] = "write"
     /\ cur[s].row < MaxRows
     /\ \E n \in 0 .. Take(f) - 1, tail \in {<<>>, <<Torn>>} :
          file' = [file EXCEPT ![s][cur[s].idx] = @ \o Records(f, n) \o tail]
     /\ FlushFails(f)

\* The first n events of the group have their offsets.  The group goes on in
\* the next segment, or is finished; with the last group the mutex is
\* released.
BatchWritten(f, n, st) ==
  LET s == sess[f]
      new == Records(f, n)
      left == SubSeq(groups[f][s], n + 1, Len(groups[f][s]))
      rest == [groups[f] EXCEPT ![s] = left]
  IN /\ cur' = [cur EXCEPT ![s] = st]
     /\ groups' = [groups EXCEPT ![f] = rest]
     /\ rows' = [rows EXCEPT ![f] = @ \cup {[sess |-> s, off |-> new[i].seq, seg |-> st.id,
                                            ev |-> new[i].ev] : i \in DOMAIN new}]
     /\ IF left # <<>>
        THEN fpc' = [fpc EXCEPT ![f] = "write"] /\ UNCHANGED <<metas, lock>>
        ELSE /\ metas' = [metas EXCEPT ![f] = Append(@, Meta(s, st))]
             /\ IF rest = NoGroups
                THEN fpc' = [fpc EXCEPT ![f] = "index"] /\ lock' = Nobody
                ELSE fpc' = [fpc EXCEPT ![f] = "group"] /\ UNCHANGED lock

\* Mutant: the group is acknowledged without an fsync.
SyncSkipped(f) ==
  LET s == sess[f]
  IN /\ fpc[f] = "sync"
     /\ BatchWritten(f, Take(f), [cur[s] EXCEPT !.row = @ + Take(f), !.next = @ + Take(f)])
     /\ UNCHANGED <<log, pending, lastOff, sess, diskVars, indexVars, ghostVars>>

\* Mutant: the sequence number does not advance with the batch.
SyncKeepsSeq(f) ==
  LET s == sess[f]
  IN /\ fpc[f] = "sync"
     /\ dirty' = [dirty EXCEPT ![s] = 0]
     /\ BatchWritten(f, Take(f), [cur[s] EXCEPT !.row = @ + Take(f)])
     /\ UNCHANGED <<log, pending, lastOff, sess, file, indexVars, ghostVars>>

\* append_batch: sync_all, then the offsets count.
Sync(f) ==
  LET s == sess[f]
  IN /\ fpc[f] = "sync"
     /\ dirty' = [dirty EXCEPT ![s] = 0]
     /\ BatchWritten(f, Take(f), [cur[s] EXCEPT !.row = @ + Take(f), !.next = @ + Take(f)])
     /\ UNCHANGED <<log, pending, lastOff, sess, file, indexVars, ghostVars>>

\* sync_all fails: rollback_batch, which leaves the bytes in the file.
SyncFails(f) ==
  /\ IoErrors
  /\ fpc[f] = "sync"
  /\ FlushFails(f)
  /\ UNCHANGED file

\* insert_segment: one upsert, the end offset is overwritten.
InsertSegment(f) ==
  LET m == Head(metas[f])
      old == {r \in segments : r.id = m.id}
  IN /\ fpc[f] = "index"
     /\ metas[f] # <<>>
     /\ segments' = (segments \ old) \cup
          (IF old = {} THEN {m} ELSE {[r EXCEPT !.end = m.end] : r \in old})
     /\ metas' = [metas EXCEPT ![f] = Tail(@)]
     /\ UNCHANGED <<log, memVars, fpc, groups, sess, rows, diskVars, events, nextId,
                    ghostVars>>

\* insert_events: one transaction, which a duplicate key rolls back.
InsertEvents(f) ==
  /\ fpc[f] = "index"
  /\ metas[f] = <<>>
  /\ IF \E r \in rows[f], q \in events : r.sess = q.sess /\ r.off = q.off
     THEN FlushFails(f) /\ UNCHANGED file
     ELSE /\ events' = events \cup rows[f]
          /\ fpc' = [fpc EXCEPT ![f] = "confirm"]
          /\ UNCHANGED <<log, memVars, groups, sess, metas, rows, diskVars, segments,
                         nextId, ghostVars>>

\* The last offset of every session in the batch is noted, flush returns Ok.
Confirm(f) ==
  LET own(s) == {r \in rows[f] : r.sess = s}
  IN /\ fpc[f] = "confirm"
     /\ lastOff' = [s \in Session |-> IF own(s) = {} THEN lastOff[s]
                                      ELSE Max({r.off : r \in own(s)}) + 1]
     /\ ok' = ok \cup {r.ev : r \in rows[f]}
     /\ rows' = [rows EXCEPT ![f] = {}]
     /\ fpc' = [fpc EXCEPT ![f] = "idle"]
     /\ UNCHANGED <<log, pending, cur, lock, groups, sess, metas, diskVars, indexVars,
                    base, forks, crashes>>

\* SQLite fails (insert_segment or insert_events).
IndexFails(f) ==
  /\ IoErrors
  /\ fpc[f] = "index"
  /\ FlushFails(f)
  /\ UNCHANGED file

-----------------------------------------------------------------------------
(* Reading.                                                                *)

RecordSet(items) == {items[i] : i \in DOMAIN items}

\* The records in the files of s, and what s inherited when it was forked.
View(s) == base[s].seen \cup UNION {RecordSet(Clean(file[s][k])) : k \in DOMAIN file[s]}

\* resolve_physical: the row without a parent at the end of the chain.
\* (The code gives up after 64 links; MaxForks is far below.)
Root(r) ==
  LET root[i \in {q.id : q \in segments}] ==
        LET q == CHOOSE q \in segments : q.id = i
        IN IF q.parent = 0 THEN q ELSE root[q.parent]
  IN root[r.id]

\* SegCursor: the records of the row's file up to its end offset.
Cursor(r) ==
  LET items == Clean(file[Root(r).sess][Root(r).idx])
      over == {i \in DOMAIN items : items[i].seq > r.end}
  IN IF over = {} THEN items ELSE SubSeq(items, 1, Min(over) - 1)

\* replay(s): what the merged cursors return, in no particular order.
Replay(s) == UNION {RecordSet(Cursor(r)) : r \in {q \in segments : q.sess = s}}

\* How many cursors return the record.
Copies(s, x) ==
  Cardinality({r \in segments : r.sess = s /\ x \in RecordSet(Cursor(r))})

\* read_events(s): the index rows of the parent segments, then its own.
ReadEvents(s) ==
  LET parents == {r.parent : r \in CopiedRows(s)}
      prefix == {q \in events : q.seg \in parents /\ q.off < ForkPoint(s)}
      own == {q \in events : q.sess = s}
  IN {[off |-> q.off, ev |-> q.ev] : q \in prefix \cup own}

-----------------------------------------------------------------------------
(* fork_session, rebuild_index, crash.                                     *)

Fresh(s) == file[s] = <<>> /\ cur[s] = NoState /\ s \notin {log[e] : e \in DOMAIN log}

\* Mutant: a segment that crosses the fork point keeps its end.
ForkKeepsEnd(p, n, c) ==
  LET old == {r \in segments : r.sess = p /\ r.start < n}
      copy(r) == [id |-> nextId + Cardinality({q \in old : q.id < r.id}), sess |-> c,
                  idx |-> r.idx, parent |-> r.id, start |-> r.start, end |-> r.end]
  IN /\ forks < MaxForks
     /\ p # c /\ Fresh(c)
     /\ n > 0 => old # {}
     /\ segments' = segments \cup {copy(r) : r \in old}
     /\ nextId' = nextId + Cardinality(old) + 1
     /\ file' = [file EXCEPT ![c] = <<<<>>>>]
     /\ cur' = [cur EXCEPT ![c] = [NoState EXCEPT !.idx = 1, !.next = n, !.first = n,
                                                  !.id = nextId + Cardinality(old)]]
     /\ base' = [base EXCEPT ![c] = [from |-> n, seen |-> {x \in Replay(p) : x.seq < n}]]
     /\ forks' = forks + 1
     /\ UNCHANGED <<log, pending, lock, lastOff, flushVars, dirty, events, ok, crashes>>

\* The rows of the prefix are copied with a reference to the parent's row,
\* the last one cut at the fork point; the coverage is checked at both ends.
Fork(p, n, c) ==
  LET old == {r \in segments : r.sess = p /\ r.start < n}
      copy(r) == [id |-> nextId + Cardinality({q \in old : q.id < r.id}), sess |-> c,
                  idx |-> r.idx, parent |-> r.id, start |-> r.start,
                  end |-> Min({r.end, n - 1})]
      first == {r \in old : \A q \in old : r.idx <= q.idx}
      last  == {r \in old : \A q \in old : q.idx <= r.idx}
  IN /\ forks < MaxForks
     /\ p # c /\ Fresh(c)
     /\ n > 0 => /\ old # {}
                 /\ \E r \in first : r.start = 0
                 /\ \E r \in last : Min({r.end, n - 1}) = n - 1
     /\ segments' = segments \cup {copy(r) : r \in old}
     /\ nextId' = nextId + Cardinality(old) + 1
     /\ file' = [file EXCEPT ![c] = <<<<>>>>]
     /\ cur' = [cur EXCEPT ![c] = [NoState EXCEPT !.idx = 1, !.next = n, !.first = n,
                                                  !.id = nextId + Cardinality(old)]]
     /\ base' = [base EXCEPT ![c] = [from |-> n, seen |-> {x \in Replay(p) : x.seq < n}]]
     /\ forks' = forks + 1
     /\ UNCHANGED <<log, pending, lock, lastOff, flushVars, dirty, events, ok, crashes>>

\* Mutant: rebuild always makes up a new segment row.
RebuildNewRows(s) ==
  LET last(k) == Clean(file[s][k])[Len(Clean(file[s][k]))].seq
      row(k) == [id |-> nextId + k, sess |-> s, idx |-> k, parent |-> 0,
                 start |-> file[s][k][1].seq, end |-> last(k)]
  IN /\ cur[s] = NoState /\ \A f \in Flusher : groups[f][s] = <<>>
     /\ Filled(s) # {}
     /\ segments' = segments \cup {row(k) : k \in Filled(s)}
     /\ nextId' = nextId + Len(file[s]) + 1
     /\ UNCHANGED <<log, memVars, flushVars, diskVars, events, ghostVars>>

\* Mutant: a segment row that exists keeps its end offset.
RebuildKeepsEnd(s) ==
  LET recs(k) == Clean(file[s][k])
      new == {k \in Filled(s) : \A r \in OwnRows(s) : r.idx # k}
      row(k) == [id |-> nextId + k, sess |-> s, idx |-> k, parent |-> 0,
                 start |-> recs(k)[1].seq, end |-> recs(k)[Len(recs(k))].seq]
  IN /\ cur[s] = NoState /\ \A f \in Flusher : groups[f][s] = <<>>
     /\ Filled(s) # {}
     /\ segments' = segments \cup {row(k) : k \in new}
     /\ nextId' = nextId + Len(file[s]) + 1
     /\ UNCHANGED <<log, memVars, flushVars, diskVars, events, ghostVars>>

\* rebuild_index(s), the repair after a crash, run before a writer opens the
\* session again: segment rows are upserted from the files, event rows are
\* inserted unless their key exists.
Rebuild(s) ==
  LET id(k) == IF \E r \in OwnRows(s) : r.idx = k THEN SegmentId(s, k) ELSE nextId + k
      recs(k) == Clean(file[s][k])
      start(k) == IF \E r \in OwnRows(s) : r.idx = k
                  THEN (CHOOSE r \in OwnRows(s) : r.idx = k).start ELSE recs(k)[1].seq
      row(k) == [id |-> id(k), sess |-> s, idx |-> k, parent |-> 0, start |-> start(k),
                 end |-> recs(k)[Len(recs(k))].seq]
      found == UNION {{[sess |-> s, off |-> x.seq, seg |-> id(k), ev |-> x.ev] :
                         x \in RecordSet(recs(k))} : k \in Filled(s)}
      known == {q.off : q \in {q \in events : q.sess = s}}
  IN /\ cur[s] = NoState /\ \A f \in Flusher : groups[f][s] = <<>>
     /\ segments' = {r \in segments : \A k \in Filled(s) : r.id # id(k)}
                      \cup {row(k) : k \in Filled(s)}
     /\ events' = events \cup {q \in found : q.off \notin known}
     /\ <<segments', events'>> # <<segments, events>>
     /\ nextId' = IF \A k \in Filled(s) : id(k) < nextId THEN nextId
                  ELSE nextId + Len(file[s]) + 1
     /\ UNCHANGED <<log, memVars, flushVars, diskVars, ghostVars>>

\* What a crash may leave of the files of s: of the records that were not
\* fsynced some, and bytes of the next one.
Left(s) ==
  IF dirty[s] = 0 THEN {file[s]}
  ELSE LET k == cur[s].idx
           n == Len(file[s][k])
       IN {[file[s] EXCEPT ![k] = SubSeq(@, 1, i) \o tail] :
             i \in n - dirty[s] .. n, tail \in {<<>>, <<Torn>>}}

\* The process dies: queue, sessions and flushes are gone.
Crash ==
  /\ crashes < MaxCrashes
  /\ crashes' = crashes + 1
  /\ pending' = <<>>
  /\ cur' = [s \in Session |-> NoState]
  /\ lock' = Nobody
  /\ lastOff' = [s \in Session |-> 0]
  /\ fpc' = [f \in Flusher |-> "idle"]
  /\ groups' = [f \in Flusher |-> NoGroups]
  /\ metas' = [f \in Flusher |-> <<>>]
  /\ rows' = [f \in Flusher |-> {}]
  /\ file' \in {g \in [Session -> UNION {Left(s) : s \in Session}] :
                 \A s \in Session : g[s] \in Left(s)}
  /\ dirty' = [s \in Session |-> 0]
  /\ UNCHANGED <<log, sess, indexVars, base, forks, ok>>

-----------------------------------------------------------------------------

Init ==
  /\ log = <<>> /\ pending = <<>>
  /\ cur = [s \in Session |-> NoState]
  /\ lock = Nobody
  /\ lastOff = [s \in Session |-> 0]
  /\ fpc = [f \in Flusher |-> "idle"]
  /\ groups = [f \in Flusher |-> NoGroups]
  /\ sess \in [Flusher -> {CHOOSE s \in Session : TRUE}]
  /\ metas = [f \in Flusher |-> <<>>]
  /\ rows = [f \in Flusher |-> {}]
  /\ file = [s \in Session |-> <<>>]
  /\ dirty = [s \in Session |-> 0]
  /\ segments = {} /\ events = {} /\ nextId = 1
  /\ base = [s \in Session |-> [from |-> 0, seen |-> {}]]
  /\ forks = 0 /\ ok = {} /\ crashes = 0

\* The steps of a flush that has taken its batch.
FlushStep(f) ==
  \/ \E s \in Session : OpenGroup(f, s)
  \/ Roll(f) \/ Write(f) \/ Sync(f) \/ InsertSegment(f) \/ InsertEvents(f)
  \/ Confirm(f)
  \/ Refuse(f) \/ WriteFails(f) \/ SyncFails(f) \/ IndexFails(f)

Next ==
  \/ \E f \in Flusher :
       \/ \E s \in Session : AppendEvent(f, s)
       \/ TakeBatch(f) \/ FlushNothing(f) \/ FlushStep(f)
  \/ \E p, c \in Session, n \in 0 .. MaxEvents : Fork(p, n, c)
  \/ \E s \in Session : Rebuild(s)
  \/ Crash

Spec == Init /\ [][Next]_vars

\* The blocking pool runs every flush to its end, and the flush loop wakes up
\* as long as something is pending.
Fairness ==
  /\ \A f \in Flusher : WF_vars(FlushStep(f))
  /\ \A f \in Flusher : WF_vars((TakeBatch(f) \/ FlushNothing(f)) /\ fpc[f] = "take")
  /\ WF_vars(\E f \in Flusher : TakeBatch(f))

FairSpec == Spec /\ Fairness

-----------------------------------------------------------------------------
(* Properties.                                                             *)

Record == [seq : Nat, row : Nat, ev : Nat]
SegmentRow == [id : Nat, sess : Session, idx : Nat, parent : Nat, start : Nat, end : Nat]
EventRow == [sess : Session, off : Nat, seg : Nat, ev : 1 .. MaxEvents]

\* Every variable has its type; the mutex is held by a flush that is writing
\* and by nobody else, and unsynced records belong to the open segment.
TypeOK ==
  /\ log \in Seq(Session) /\ Len(log) <= MaxEvents
  /\ \A i \in DOMAIN pending : pending[i] \in DOMAIN log
  /\ \A s \in Session : /\ cur[s] \in [idx : Nat, row : Nat, next : Nat, first : Nat, id : Nat]
                        /\ cur[s].row <= MaxRows
                        /\ dirty[s] > 0 => cur[s].idx \in DOMAIN file[s]
                        /\ \A k \in DOMAIN file[s] : file[s][k] \in Seq(Record)
  /\ \A f \in Flusher : /\ fpc[f] \in {"idle", "take", "group", "write", "sync", "index",
                                    "confirm"}
                        /\ fpc[f] \in {"write", "sync"} => lock = f
                        /\ lock = f => fpc[f] \in {"group", "write", "sync"}
                        /\ rows[f] \subseteq EventRow
  /\ lock \in Flusher \cup {Nobody} /\ lastOff \in [Session -> Nat]
  /\ segments \subseteq SegmentRow /\ events \subseteq EventRow
  /\ ok \subseteq DOMAIN log

\* The records that survive a crash.
Durable(s) ==
  UNION {LET n == IF k = cur[s].idx THEN dirty[s] ELSE 0
         IN RecordSet(Clean(SubSeq(file[s][k], 1, Len(file[s][k]) - n))) :
           k \in DOMAIN file[s]}

Earlier(s, k) ==
  {x \in (1 .. k - 1) \X (1 .. MaxRows) : x[2] \in DOMAIN Clean(file[s][x[1]])}

\* The sequence numbers of a session run without gap or repetition through
\* all its segment files, from its fork point on, so recover_tail accepts
\* every file a crash can leave; and no file grows beyond MaxRows.
FilesContiguous ==
  \A s \in Session : \A k \in DOMAIN file[s] :
    /\ Consecutive(Clean(file[s][k]), base[s].from + Cardinality(Earlier(s, k)))
    /\ Len(Clean(file[s][k])) <= MaxRows

\* An event of a flush that returned Ok is on disk, for good, in exactly one
\* record, and the index has it under the same offset.
ConfirmedKept ==
  \A e \in ok :
    /\ Cardinality({x \in View(log[e]) \ base[log[e]].seen : x.ev = e}) = 1
    /\ \E x \in Durable(log[e]), q \in events :
         x.ev = e /\ q.ev = e /\ q.sess = log[e] /\ q.off = x.seq

\* The index never says more than the files: an event row has its record on
\* disk and a segment row ends at a record of its file.
IndexIsTrue ==
  /\ \A q \in events : \E x \in Durable(q.sess) : x.seq = q.off /\ x.ev = q.ev
  /\ \A s \in Session : \A r \in OwnRows(s) :
       /\ \E x \in Durable(s) : x.seq = r.end
       /\ file[s][r.idx][1].seq = r.start

\* replay returns no record twice, whatever crashes and rebuilds there were:
\* a segment file has one row per session that uses it.
ReplayOnce ==
  \A s \in Session : \A x \in Replay(s) : Copies(s, x) = 1

\* The transaction of insert_events never meets a key that exists.
NoKeyConflict ==
  \A f \in Flusher : fpc[f] # "confirm" =>
    \A r \in rows[f], q \in events : ~(r.sess = q.sess /\ r.off = q.off)

\* A record on disk is never changed and never removed.
AppendOnly == [][\A s \in Session : Durable(s) \subseteq Durable(s)']_vars

\* After rebuild_index everything in the session's own files can be read
\* again, by replay and by read_events.
RebuildHeals ==
  [][\A s \in Session : Rebuild(s) =>
       /\ (View(s) \ base[s].seen \subseteq Replay(s))'
       /\ \A x \in View(s) \ base[s].seen : [off |-> x.seq, ev |-> x.ev] \in ReadEvents(s)']_vars

\* A fork inherits what replay of its parent showed below the fork point, a
\* hole included, and that never changes: of other sessions replay shows these
\* records and no other, whatever flushes, forks, rebuilds and crashes follow
\* and however far the parent goes on.
ForkSeesPrefix ==
  \A s \in Session : {x \in Replay(s) : log[x.ev] # s} = base[s].seen

\* Every flush that took a batch returns, although flushes contend for the
\* sessions mutex and for the index.
FlushReturns == \A f \in Flusher : (fpc[f] # "idle") ~> (fpc[f] = "idle")

\* Every event that append accepted leaves the queue.
QueueDrains == (pending # <<>>) ~> (pending = <<>>)

-----------------------------------------------------------------------------
(* What the documentation says and the code does not do.                   *)

\* segment.rs: after a failed write the batch is not on disk, and the writer
\* goes on with strictly increasing offsets.
FailedWriteLeavesNoTrace ==
  \A s \in Session : \A k \in DOMAIN file[s] :
    \A i, j \in DOMAIN Clean(file[s][k]) : i < j => file[s][k][i].seq < file[s][k][j].seq

\* replay.rs: a session's own segments are replayed to their actual end, the
\* files are the authority.  So once no flush is under way, every event of a
\* flush that returned Ok is replayed.
ReplayShowsConfirmed ==
  (\A f \in Flusher : fpc[f] = "idle") =>
    \A e \in ok : \E x \in Replay(log[e]) : x.ev = e
=============================================================================
