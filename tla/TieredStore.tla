---------------------------- MODULE TieredStore ----------------------------
(***************************************************************************)
(* cmt-tiering: the four-tier capability memory.  CmtCoordinator keeps      *)
(* entries in a hot tier (two DashMaps: the entries and their access order) *)
(* and in three stores below it (SQLite, attached SQLite, files).  Every    *)
(* operation is a sequence of single-tier calls with awaits in between, so  *)
(* operations of several tasks interleave between any two of them.          *)
(*                                                                          *)
(* An entry is the number of the insert that made it (0: absent); the tick  *)
(* values of the access order are left out, so evict_lru may choose any     *)
(* entry that the access order knows.                                       *)
(***************************************************************************)
EXTENDS Naturals, FiniteSets

CONSTANTS
  Cap,          \* capability ids
  Task,         \* tasks that call the coordinator
  Capacity,     \* hot_capacity
  MaxOps,       \* bound: operations started
  MaxErrors     \* bound: storage calls that fail

ASSUME TieredAssumption ==
  /\ IsFiniteSet(Cap) /\ Cap # {}
  /\ Capacity \in Nat \ {0}
  /\ MaxOps \in Nat /\ MaxErrors \in Nat

VARIABLES
  hot,         \* HotTier.entries
  order,       \* the keys of HotTier.access_order
  insertLock,  \* the task that holds HotTier.insert_lock, as a set
  lower,       \* the warm, cold and ice tiers
  job,         \* what each task is doing
  ops,         \* number of operations started so far; it numbers the entries
  errors,      \* number of storage errors so far
  latest,      \* ghost: the last entry inserted, 0 once deleted
  excused,     \* ghost: ids deleted, dropped by a reported error, or overtaken (below)
  calm         \* ghost: no two operations overlapped, none failed, no LSCT ran

tierVars == <<hot, order, insertLock, lower, job, ops, errors, latest, excused, calm>>

LowerTier == {"warm", "cold", "ice"}
TierBelow == [hot |-> "warm", warm |-> "cold", cold |-> "ice"]
Keys(f) == {c \in Cap : f[c] # 0}
Nothing == [c \in Cap |-> 0]
Only(f, S) == [c \in Cap |-> IF c \in S THEN f[c] ELSE 0]
\* INSERT OR REPLACE of every entry of f.
Over(g, f) == [c \in Cap |-> IF f[c] # 0 THEN f[c] ELSE g[c]]

\* A task between two operations.
Free == [pc |-> "idle", op |-> "none", id |-> CHOOSE c \in Cap : TRUE,
         vic |-> CHOOSE c \in Cap : TRUE, from |-> "warm", to |-> "warm",
         held |-> Nothing, snap |-> Nothing, todo |-> {},
         cand |-> [warm |-> {}, cold |-> {}]]

IdleBut(t) == \A u \in Task \ {t} : job[u].pc = "idle"
AllIdle == \A t \in Task : job[t].pc = "idle"

TierInit ==
  /\ hot = Nothing /\ order = {} /\ insertLock = {}
  /\ lower = [x \in LowerTier |-> Nothing]
  /\ job = [t \in Task |-> Free]
  /\ ops = 0 /\ errors = 0
  /\ latest = Nothing /\ excused = {} /\ calm = TRUE

Go(t, j) == job' = [job EXCEPT ![t] = j]

\* A new operation of t.
Starts(t, j) ==
  /\ job[t].pc = "idle" /\ ops < MaxOps
  /\ ops' = ops + 1
  /\ Go(t, j)
  /\ calm' = (calm /\ IdleBut(t))

-----------------------------------------------------------------------------
(* HotTier::insert, called by insert, by promotions and by LSCT.           *)

\* insert: the new entry goes to the hot tier.
Insert(t, c) ==
  /\ Starts(t, [Free EXCEPT !.pc = "hot", !.op = "insert", !.id = c, !.vic = c,
                            !.held = [Nothing EXCEPT ![c] = ops + 1]])
  /\ latest' = [latest EXCEPT ![c] = ops + 1]
  /\ UNCHANGED <<hot, order, insertLock, lower, errors, excused>>

\* The lock is taken and the capacity checked; vic = id stands for no victim.
HotLock(t) ==
  /\ job[t].pc = "hot" /\ insertLock = {}
  /\ insertLock' = {t}
  /\ LET c == job[t].id
         full == hot[c] = 0 /\ Cardinality(Keys(hot)) >= Capacity
     IN Go(t, [job[t] EXCEPT !.pc = IF full THEN "evict" ELSE "order", !.vic = c])
  /\ UNCHANGED <<hot, order, lower, ops, errors, latest, excused, calm>>

\* evict_lru: the victim leaves the access order first ...
HotEvict(t) ==
  /\ job[t].pc = "evict"
  /\ IF Keys(hot) = {} \/ order = {}
     THEN Go(t, [job[t] EXCEPT !.pc = "order"]) /\ UNCHANGED order
     ELSE \E v \in order :
            /\ order' = order \ {v}
            /\ Go(t, [job[t] EXCEPT !.pc = "evicted", !.vic = v])
  /\ UNCHANGED <<hot, insertLock, lower, ops, errors, latest, excused, calm>>

\* Mutant: the entry that entries.remove returned is thrown away.
HotEvictedForgets(t) ==
  LET v == job[t].vic IN
  /\ job[t].pc = "evicted"
  /\ hot' = [hot EXCEPT ![v] = 0]
  /\ Go(t, [job[t] EXCEPT !.pc = "order", !.vic = job[t].id])
  /\ UNCHANGED <<order, insertLock, lower, ops, errors, latest, excused, calm>>

\* ... and then the entries, where a concurrent remove may have been faster.
HotEvicted(t) ==
  LET v == job[t].vic IN
  /\ job[t].pc = "evicted"
  /\ hot' = [hot EXCEPT ![v] = 0]
  /\ Go(t, IF hot[v] = 0
           THEN [job[t] EXCEPT !.pc = "order", !.vic = job[t].id]
           ELSE [job[t] EXCEPT !.pc = "order", !.held[v] = hot[v]])
  /\ UNCHANGED <<order, insertLock, lower, ops, errors, latest, excused, calm>>

HotOrder(t) ==
  /\ job[t].pc = "order"
  /\ order' = order \cup {job[t].id}
  /\ Go(t, [job[t] EXCEPT !.pc = "put"])
  /\ UNCHANGED <<hot, insertLock, lower, ops, errors, latest, excused, calm>>

\* What the caller of hot.insert does next.
AfterHot(j) == IF j.op = "lsct" THEN [j EXCEPT !.pc = "erase"] ELSE Free

HotPut(t) ==
  LET j == [job[t] EXCEPT !.held[job[t].id] = 0] IN
  /\ job[t].pc = "put"
  /\ hot' = [hot EXCEPT ![j.id] = job[t].held[j.id]]
  /\ insertLock' = {}
  /\ Go(t, IF j.vic = j.id THEN AfterHot(j) ELSE [j EXCEPT !.pc = "spill"])
  /\ UNCHANGED <<order, lower, ops, errors, latest, excused, calm>>

\* The evicted entry goes to the warm tier.
Spill(t) ==
  /\ job[t].pc = "spill"
  /\ lower' = [lower EXCEPT !["warm"] = Over(@, job[t].held)]
  /\ Go(t, AfterHot([job[t] EXCEPT !.held = Nothing]))
  /\ UNCHANGED <<hot, order, insertLock, ops, errors, latest, excused, calm>>

HotStep(t) ==
  HotLock(t) \/ HotEvict(t) \/ HotEvicted(t) \/ HotOrder(t) \/ HotPut(t) \/ Spill(t)

-----------------------------------------------------------------------------
(* get: the tiers are searched from the top; a hit below is promoted.      *)

\* A hit in the hot tier touches the access order while it holds the entry.
GetHot(t, c) ==
  /\ hot[c] # 0
  /\ Starts(t, Free)
  /\ order' = order \cup {c}
  /\ UNCHANGED <<hot, insertLock, lower, errors, latest, excused>>

GetMiss(t, c) ==
  /\ hot[c] = 0
  /\ Starts(t, [Free EXCEPT !.pc = "look", !.op = "get", !.id = c])
  /\ UNCHANGED <<hot, order, insertLock, lower, errors, latest, excused>>

Look(t) ==
  LET j == job[t] IN
  /\ j.pc = "look"
  /\ Go(t, IF lower[j.from][j.id] # 0
           THEN [j EXCEPT !.pc = "take", !.held[j.id] = lower[j.from][j.id]]
           ELSE IF j.from = "ice" THEN Free ELSE [j EXCEPT !.from = TierBelow[j.from]])
  /\ UNCHANGED <<hot, order, insertLock, lower, ops, errors, latest, excused, calm>>

\* promote_to_hot_internal: the source loses the entry (it may be gone
\* already), then the copy that was read is inserted into the hot tier.
TakeCopy(t) ==
  LET j == job[t] IN
  /\ j.pc = "take"
  /\ lower' = [lower EXCEPT ![j.from][j.id] = 0]
  /\ Go(t, [j EXCEPT !.pc = "hot"])
  /\ UNCHANGED <<hot, order, insertLock, ops, errors, latest, excused, calm>>

-----------------------------------------------------------------------------
(* HotTier::remove, called by delete, by the decay cycle and by LSCT for   *)
(* every id of todo: first the access order, then the entries.             *)

\* An LSCT migration that is about to erase its source although the copy it
\* wrote to its target has been moved away or replaced in between.
Overtaken(t) ==
  LET j == job[t] IN
  /\ j.op = "lsct"
  /\ IF j.to = "hot" THEN hot[j.id] = 0 ELSE lower[j.to][j.id] = 0

Excuse(t) == excused' = IF Overtaken(t) THEN excused \cup {job[t].id} ELSE excused

RemoveOrder(t) ==
  /\ job[t].pc = "remove"
  /\ \E c \in job[t].todo :
       /\ order' = order \ {c}
       /\ Go(t, [job[t] EXCEPT !.pc = "removed", !.id = c])
  /\ UNCHANGED <<hot, insertLock, lower, ops, errors, latest, excused, calm>>

\* Mutant: delete removes the hot copy only.
RemoveEntryHotOnly(t) ==
  LET j == [job[t] EXCEPT !.todo = @ \ {job[t].id}] IN
  /\ job[t].pc = "removed"
  /\ hot' = [hot EXCEPT ![j.id] = 0]
  /\ Go(t, IF j.todo # {} THEN [j EXCEPT !.pc = "remove"]
           ELSE IF j.op = "decay" THEN [j EXCEPT !.pc = "batch"] ELSE Free)
  /\ Excuse(t)
  /\ UNCHANGED <<order, insertLock, lower, ops, errors, latest, calm>>

RemoveEntry(t) ==
  LET j == [job[t] EXCEPT !.todo = @ \ {job[t].id}] IN
  /\ job[t].pc = "removed"
  /\ hot' = [hot EXCEPT ![j.id] = 0]
  /\ Go(t, IF j.todo # {} THEN [j EXCEPT !.pc = "remove"]
           ELSE CASE j.op = "delete" -> [j EXCEPT !.pc = "purge"]
                  [] j.op = "decay"  -> [j EXCEPT !.pc = "batch"]
                  [] OTHER           -> Free)
  /\ Excuse(t)
  /\ UNCHANGED <<order, insertLock, lower, ops, errors, latest, calm>>

\* delete: every tier loses the id, from the top down.
Delete(t, c) ==
  /\ Starts(t, [Free EXCEPT !.pc = "remove", !.op = "delete", !.todo = {c}])
  /\ latest' = [latest EXCEPT ![c] = 0]
  /\ excused' = excused \cup {c}
  /\ UNCHANGED <<hot, order, insertLock, lower, errors>>

Purge(t) ==
  LET j == job[t] IN
  /\ j.pc = "purge"
  /\ lower' = [lower EXCEPT ![j.from][j.id] = 0]
  /\ Go(t, IF j.from = "ice" THEN Free ELSE [j EXCEPT !.from = TierBelow[j.from]])
  /\ UNCHANGED <<hot, order, insertLock, ops, errors, latest, excused, calm>>

-----------------------------------------------------------------------------
(* run_decay_cycle.  Which entries have decayed depends on the clock: any  *)
(* set of them.  A cycle fits into one batch of DECAY_BATCH_SIZE.          *)

DecaySnapshot(t) ==
  /\ \E S \in SUBSET Keys(hot) :
       Starts(t, [Free EXCEPT !.pc = "meta", !.op = "decay", !.snap = Only(hot, S)])
  /\ UNCHANGED <<hot, order, insertLock, lower, errors, latest, excused>>

\* The metadata of the warm and then of the cold tier is read; what is being
\* demoted from the tier above is left out.
DecayMeta(t) ==
  LET j == job[t]
      above == IF j.from = "warm" THEN Keys(j.snap) ELSE j.cand["warm"]
  IN
  /\ j.pc = "meta"
  /\ \E S \in SUBSET (Keys(lower[j.from]) \ above) :
       Go(t, [j EXCEPT !.cand[j.from] = S, !.from = TierBelow[j.from],
                       !.pc = IF j.from = "warm" THEN "meta" ELSE "filter"])
  /\ UNCHANGED <<hot, order, insertLock, lower, ops, errors, latest, excused, calm>>

\* demote_hot_to_warm: entries that have left the hot tier are skipped; the
\* others are written as the snapshot has them.
DecayFilter(t) ==
  LET j == [job[t] EXCEPT !.held = Only(job[t].snap, Keys(hot)), !.snap = Nothing,
                          !.from = "warm", !.to = "warm"]
  IN
  /\ job[t].pc = "filter"
  /\ Go(t, IF Keys(j.held) = {} THEN [j EXCEPT !.pc = "peek"]
           ELSE [j EXCEPT !.pc = "remove", !.todo = Keys(j.held)])
  /\ UNCHANGED <<hot, order, insertLock, lower, ops, errors, latest, excused, calm>>

\* demote_warm_to_cold, demote_cold_to_ice: one peek per candidate, ...
DecayPeek(t) ==
  LET j == job[t]
      C == j.cand[j.from]
  IN
  /\ j.pc = "peek"
  /\ \/ \E c \in C : Go(t, [j EXCEPT !.cand[j.from] = C \ {c},
                                     !.held[c] = lower[j.from][c]])
     \/ /\ C = {} /\ Keys(j.held) # {}
        /\ Go(t, [j EXCEPT !.pc = "unlink"])
     \/ /\ C = {} /\ Keys(j.held) = {}
        /\ Go(t, IF j.from = "warm" THEN [j EXCEPT !.from = "cold"] ELSE Free)
  /\ UNCHANGED <<hot, order, insertLock, lower, ops, errors, latest, excused, calm>>

\* ... then the tier loses them in one transaction, ...
DecayUnlink(t) ==
  LET j == job[t] IN
  /\ j.pc = "unlink"
  /\ lower' = [lower EXCEPT ![j.from] = Only(@, Cap \ Keys(j.held))]
  /\ Go(t, [j EXCEPT !.pc = "batch", !.to = TierBelow[j.from]])
  /\ UNCHANGED <<hot, order, insertLock, ops, errors, latest, excused, calm>>

\* ... and the tier below gets them: in one transaction, or file by file.
DecayBatch(t) ==
  LET j == job[t] IN
  /\ j.pc = "batch"
  /\ \E S \in IF j.to = "ice" THEN {{c} : c \in Keys(j.held)} ELSE {Keys(j.held)} :
       /\ lower' = [lower EXCEPT ![j.to] = Over(@, Only(j.held, S))]
       /\ LET k == [j EXCEPT !.held = Only(j.held, Cap \ S)]
          IN Go(t, IF Keys(k.held) # {} THEN k
                   ELSE IF j.to = "ice" THEN Free
                   ELSE [k EXCEPT !.pc = "peek", !.from = j.to])
  /\ UNCHANGED <<hot, order, insertLock, ops, errors, latest, excused, calm>>

DecayStep(t) ==
  DecayMeta(t) \/ DecayFilter(t) \/ DecayPeek(t) \/ DecayUnlink(t) \/ DecayBatch(t)

-----------------------------------------------------------------------------
(* apply_lsct_migration, called by the one subscriber of LsctTierSwitched. *)

LsctStart(t, c, from, to) ==
  LET copy == IF from = "hot" THEN hot[c] ELSE lower[from][c] IN
  /\ from # "ice" /\ from # to /\ copy # 0
  /\ \A u \in Task : job[u].op # "lsct"
  /\ Starts(t, [Free EXCEPT !.pc = IF to = "hot" THEN "hot" ELSE "write", !.op = "lsct",
                            !.id = c, !.from = from, !.to = to,
                            !.held = [Nothing EXCEPT ![c] = copy]] )
  /\ UNCHANGED <<hot, order, insertLock, lower, errors, latest, excused>>

\* The target is written first ...
LsctWrite(t) ==
  LET j == job[t] IN
  /\ j.pc = "write"
  /\ lower' = [lower EXCEPT ![j.to] = Over(@, j.held)]
  /\ Go(t, [j EXCEPT !.held = Nothing, !.todo = {j.id},
                     !.pc = IF j.from = "hot" THEN "remove" ELSE "erase"])
  /\ UNCHANGED <<hot, order, insertLock, ops, errors, latest, excused>>
  /\ calm' = FALSE

\* ... and the source is erased when that has succeeded.
LsctErase(t) ==
  LET j == job[t] IN
  /\ j.pc = "erase"
  /\ lower' = [lower EXCEPT ![j.from][j.id] = 0]
  /\ Go(t, Free)
  /\ calm' = FALSE
  /\ Excuse(t)
  /\ UNCHANGED <<hot, order, insertLock, ops, errors, latest>>

-----------------------------------------------------------------------------

\* A call of a tier below fails and the operation returns its error: what it
\* had taken out of a tier and not yet written is gone.
StorageError(t) ==
  LET j == job[t] IN
  /\ j.pc \in {"look", "take", "spill", "purge", "meta", "peek", "unlink", "batch",
               "write", "erase"}
  /\ errors < MaxErrors
  /\ errors' = errors + 1
  /\ excused' = IF j.pc \in {"spill", "batch"} THEN excused \cup Keys(j.held) ELSE excused
  /\ Go(t, Free)
  /\ calm' = FALSE
  /\ UNCHANGED <<hot, order, insertLock, lower, ops, latest>>

TierNext ==
  \E t \in Task :
    \/ \E c \in Cap : Insert(t, c) \/ GetHot(t, c) \/ GetMiss(t, c) \/ Delete(t, c)
    \/ DecaySnapshot(t)
    \/ \E c \in Cap, from, to \in LowerTier \cup {"hot"} : LsctStart(t, c, from, to)
    \/ HotStep(t)
    \/ Look(t) \/ TakeCopy(t)
    \/ RemoveOrder(t) \/ RemoveEntry(t) \/ Purge(t)
    \/ DecayStep(t)
    \/ LsctWrite(t) \/ LsctErase(t)
    \/ StorageError(t)

TierSpec == TierInit /\ [][TierNext]_tierVars

-----------------------------------------------------------------------------
(* Properties.                                                             *)

Entries == [Cap -> 0 .. MaxOps]

\* Every variable has its type; the insert lock belongs to a task inside the
\* critical section, and a task that carries an entry knows where it goes.
TierTypeOK ==
  /\ hot \in Entries /\ order \subseteq Cap
  /\ lower \in [LowerTier -> Entries]
  /\ ops \in 0 .. MaxOps /\ errors \in 0 .. MaxErrors
  /\ latest \in Entries /\ excused \subseteq Cap /\ calm \in BOOLEAN
  /\ \A t \in Task :
       /\ (t \in insertLock) <=> (job[t].pc \in {"evict", "evicted", "order", "put"})
       /\ job[t].held \in Entries
       /\ job[t].pc \in {"hot", "evict", "evicted", "order", "put", "take", "write"}
            => job[t].held[job[t].id] # 0
       /\ job[t].pc = "idle" => job[t] = Free
  /\ Cardinality(insertLock) <= 1

\* coordinator.rs insert/get/run_decay_cycle/apply_lsct_migration: whatever
\* promotions, evictions, decay cycles and migrations run at the same time, an
\* id that was inserted is in a tier or in the hands of a task that is about to
\* write it, unless it was deleted, dropped by a storage error that was
\* reported, or erased by an LSCT migration whose target had been overtaken:
\* apply_lsct_migration erases the source without looking at the target again.
NothingLost ==
  \A c \in Cap \ excused :
    (\E n \in 1 .. ops : latest[c] = n) =>
      \/ hot[c] # 0
      \/ \E x \in LowerTier : lower[x][c] # 0
      \/ \E t \in Task : job[t].held[c] # 0

\* The entry that get would find.
Top(c) ==
  IF hot[c] # 0 THEN hot[c]
  ELSE IF lower["warm"][c] # 0 THEN lower["warm"][c]
  ELSE IF lower["cold"][c] # 0 THEN lower["cold"][c] ELSE lower["ice"][c]

\* coordinator.rs get/delete: after any sequence of inserts, gets, deletes and
\* decay cycles that neither overlapped nor failed, and as long as no LSCT
\* migration ran (one that skips a tier uncovers an older copy there), copies
\* left behind in lower tiers never come to the surface: get finds the entry of
\* the last insert and, after a delete, nothing.
ReadsLatest == calm /\ AllIdle => \A c \in Cap : Top(c) = latest[c]

\* hot.rs: without overlapping operations the access order knows exactly the
\* entries, so that an insert always finds a victim and the capacity holds.
HotWithinCapacity ==
  calm /\ AllIdle => order = Keys(hot) /\ Cardinality(Keys(hot)) <= Capacity
=============================================================================
