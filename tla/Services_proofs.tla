-------------------------- MODULE Services_proofs --------------------------
(***************************************************************************)
(* Proofs about the tiered memory, a gateway channel and the context       *)
(* cache, for every number of ids, tasks, operations and storage errors    *)
(* and every capacity.                                                     *)
(*                                                                         *)
(* Nothing is lost: a copy in the hands of a task counts only at the       *)
(* places where the task is bound to write it (Solid).  An entry is out of *)
(* every tier only while such a task has it.                               *)
(*                                                                         *)
(* The last insert is read: while no two operations overlap, CalmOK says   *)
(* at each place of the one operation under way which ids already have     *)
(* their latest entry on top and what the operation's copies are.          *)
(* RoomInv says in the same way what the access order of the hot tier is   *)
(* in the middle of an insert or a removal.                                *)
(*                                                                         *)
(* The cache: UserOK says what the one task inside insert knows of its     *)
(* victim and of the room there is.                                        *)
(***************************************************************************)
EXTENDS TieredStore, Gateway, SccCache, TLAPS, FiniteSetTheorems

PC == {"idle", "hot", "evict", "evicted", "order", "put", "spill", "look", "take", "remove",
       "removed", "purge", "meta", "filter", "peek", "unlink", "batch", "write", "erase"}
Op == {"none", "insert", "get", "delete", "decay", "lsct"}
Tier == LowerTier \cup {"hot"}

\* The fields of a job; nothing depends on the type of its candidates.
JobType(X) ==
  [pc : PC, op : Op, id : Cap, vic : Cap, from : Tier, to : Tier, held : Entries,
   snap : Entries, todo : SUBSET Cap, cand : X]
Shape(j) == \E X : j \in JobType(X)

StoresOK ==
  /\ hot \in Entries /\ order \subseteq Cap
  /\ lower \in [LowerTier -> Entries]
  /\ ops \in 0 .. MaxOps /\ errors \in 0 .. MaxErrors
  /\ latest \in Entries /\ excused \subseteq Cap

CalmType == calm \in BOOLEAN

JobsShaped == DOMAIN job = Task /\ job = [t \in Task |-> job[t]] /\ \A t \in Task : Shape(job[t])

Storing == {"hot", "evict", "evicted", "order", "put", "spill"}
Removing == {"remove", "removed"}

\* What a task carries at each place, and where it goes.
CarryOK(j) ==
  /\ j.pc = "idle" => j = Free
  /\ j.pc \in {"hot", "evict", "evicted", "order", "put", "take", "write"} => j.held[j.id] # 0
  /\ j.pc = "look" => Keys(j.held) = {}
  /\ j.pc \in {"take", "hot", "evict", "evicted"} => Keys(j.held) \subseteq {j.id}
  /\ j.pc \in {"order", "put"} => Keys(j.held) \subseteq {j.id, j.vic}
  /\ j.pc = "spill" => Keys(j.held) \subseteq {j.vic}
  /\ j.pc \in {"look", "take", "purge", "erase"} => j.from \in LowerTier
  /\ j.pc \in {"meta", "peek", "unlink"} => j.from \in {"warm", "cold"}
  /\ j.pc \in {"batch", "write"} => j.to \in LowerTier
  /\ j.pc \in {"meta", "filter", "peek", "unlink", "batch"} => j.op = "decay"
  /\ j.pc \in {"look", "take", "purge"} => j.op \in {"get", "delete"}
  /\ j.pc = "evict" => j.vic = j.id

\* The removals of delete, of the decay cycle and of an LSCT migration; E are
\* the ids that may be gone.
RemovalOK(j, E) ==
  /\ j.pc \in Removing => j.op \in {"delete", "decay", "lsct"}
  /\ j.pc = "removed" => j.id \in j.todo
  /\ j.pc \in Removing /\ j.op = "delete" =>
       /\ j.todo \subseteq E /\ j.from = "warm"
       /\ \A a, b \in j.todo : a = b
  /\ j.pc \in Removing /\ j.op = "decay" => j.todo \subseteq Keys(j.held) /\ j.to = "warm"
  /\ j.pc \in Removing /\ j.op = "lsct" => j.to \in LowerTier
  /\ j.pc = "purge" => j.id \in E
  /\ j.pc \in {"write", "erase"} => j.op = "lsct"
  /\ j.pc \in Storing /\ j.op = "lsct" => j.from \in LowerTier
  /\ j.pc \in Storing \cup {"write", "erase"} /\ j.op = "lsct" => j.from # j.to

JobsOK == \A t \in Task : CarryOK(job[t]) /\ RemovalOK(job[t], excused)

LockOK ==
  /\ insertLock \subseteq Task
  /\ \A t \in Task : t \in insertLock <=> job[t].pc \in {"evict", "evicted", "order", "put"}
  /\ \A t, u \in insertLock : t = u

TierInv == StoresOK /\ JobsShaped /\ JobsOK

\* The copies a task is bound to write.
Solid(j) ==
  IF j.pc \in Storing \cup {"batch"} \/ (j.pc \in Removing /\ j.op = "decay")
  THEN Keys(j.held) ELSE {}

Stored(c) == hot[c] # 0 \/ \E x \in LowerTier : lower[x][c] # 0

SafeInv ==
  \A c \in Cap \ excused :
    latest[c] # 0 => Stored(c) \/ \E t \in Task : c \in Solid(job[t])

\* The last insert of c is what get finds.
Right(c) == Top(c) = latest[c]

\* The tiers above x do not know c.
Clear(c, x) ==
  /\ x \in {"warm", "cold", "ice"} => hot[c] = 0
  /\ x \in {"cold", "ice"} => lower["warm"][c] = 0
  /\ x = "ice" => lower["cold"][c] = 0

CalmHot(j) ==
  /\ j.pc \in {"hot", "evict", "evicted", "order", "put"} =>
       /\ j.held[j.id] = latest[j.id]
       /\ \A c \in Cap \ {j.id, j.vic} : Right(c)
  /\ j.pc \in {"hot", "evict", "evicted"} => \A c \in Cap \ {j.id} : Right(c)
  /\ j.pc \in {"evict", "evicted"} => hot[j.id] = 0
  /\ j.pc \in {"order", "put", "spill"} /\ j.vic # j.id =>
       hot[j.vic] = 0 /\ j.held[j.vic] # 0 /\ j.held[j.vic] = latest[j.vic]
  /\ j.pc = "spill" => j.vic # j.id /\ \A c \in Cap \ {j.vic} : Right(c)

CalmRead(j) ==
  /\ j.pc \in {"look", "take", "meta", "filter", "peek", "unlink"} => \A c \in Cap : Right(c)
  /\ j.pc \in {"look", "take"} => Clear(j.id, j.from)
  /\ j.pc = "take" => j.held[j.id] = latest[j.id]
  /\ j.pc \in {"meta", "filter"} => \A c \in Keys(j.snap) : j.snap[c] = hot[c]
  /\ j.pc \in {"peek", "unlink"} => \A c \in Keys(j.held) : j.held[c] = lower[j.from][c]

CalmGone(j) ==
  /\ j.pc \in Removing /\ j.op = "delete" =>
       \A c \in Cap : IF c \in j.todo THEN latest[c] = 0 ELSE Right(c)
  /\ j.pc = "purge" =>
       /\ latest[j.id] = 0 /\ Clear(j.id, j.from)
       /\ \A c \in Cap \ {j.id} : Right(c)
  /\ j.pc \in Removing /\ j.op = "decay" =>
       \A c \in Cap : IF c \in Keys(j.held)
                      THEN j.held[c] = latest[c] /\ (c \in j.todo \/ hot[c] = 0)
                      ELSE Right(c)
  /\ j.pc = "batch" =>
       \A c \in Cap : IF c \in Keys(j.held) /\ Clear(c, j.to)
                      THEN j.held[c] = latest[c] ELSE Right(c)

CalmOK(j) == CalmHot(j) /\ CalmRead(j) /\ CalmGone(j)

CalmInv ==
  calm =>
    /\ AllIdle => \A c \in Cap : Right(c)
    /\ \A t \in Task : job[t].pc # "idle" =>
         /\ IdleBut(t)
         /\ IF job[t].op = "lsct" THEN job[t].pc \in Storing \cup {"write", "erase"}
            ELSE CalmOK(job[t])

-----------------------------------------------------------------------------
(* What each step does with the job of its task.                           *)

\* Task t goes on with r.
Becomes(t, r) == job' = [job EXCEPT ![t] = r] /\ Shape(r)

\* r carries and intends what j does.
Carries(r, j) ==
  /\ r.op = j.op /\ r.id = j.id /\ r.from = j.from /\ r.to = j.to
  /\ r.held = j.held /\ r.snap = j.snap /\ r.todo = j.todo

\* A task that has come to its end.
IsFree(r) == r = Free /\ r.pc = "idle" /\ r.op = "none"

LEMMA NothingThere ==
  /\ Nothing \in Entries /\ Keys(Nothing) = {} /\ \A c \in Cap : Nothing[c] = 0
  BY TieredAssumption DEF Nothing, Entries, Keys

LEMMA OnlyThere ==
  ASSUME NEW f \in Entries, NEW S
  PROVE  /\ Only(f, S) \in Entries
         /\ \A c \in Cap : Only(f, S)[c] = IF c \in S THEN f[c] ELSE 0
         /\ Keys(Only(f, S)) = Keys(f) \cap S
<1>1. \A c \in Cap : (IF c \in S THEN f[c] ELSE 0) \in 0 .. MaxOps
  BY TieredAssumption DEF Entries
<1>2. /\ Only(f, S) \in Entries
      /\ \A c \in Cap : Only(f, S)[c] = IF c \in S THEN f[c] ELSE 0
  BY <1>1 DEF Only, Entries
<1>3. QED
  BY <1>2 DEF Keys

\* The tiers below after an id has left tier x, and after f has been written
\* to tier x.
ErasedAt(x, S) ==
  /\ lower' \in [LowerTier -> Entries]
  /\ \A y \in LowerTier, d \in Cap : lower'[y][d] = IF y = x /\ d \in S THEN 0 ELSE lower[y][d]

WrittenAt(x, f) ==
  /\ lower' \in [LowerTier -> Entries]
  /\ \A y \in LowerTier, d \in Cap :
       lower'[y][d] = IF y = x /\ f[d] # 0 THEN f[d] ELSE lower[y][d]

LEMMA EraseThere ==
  ASSUME StoresOK, NEW x \in LowerTier, NEW c \in Cap, lower' = [lower EXCEPT ![x][c] = 0]
  PROVE  ErasedAt(x, {c})
<1>1. lower[x] \in [Cap -> 0 .. MaxOps] /\ 0 \in 0 .. MaxOps
  BY TieredAssumption DEF StoresOK, Entries
<1> DEFINE e == [lower[x] EXCEPT ![c] = 0]
<1>2. e \in Entries /\ \A d \in Cap : e[d] = IF d \in {c} THEN 0 ELSE lower[x][d]
  BY <1>1 DEF Entries
<1>3. lower' = [lower EXCEPT ![x] = e]
  OBVIOUS
<1> HIDE DEF e
<1>4. QED
  BY <1>2, <1>3 DEF ErasedAt, StoresOK

LEMMA UnlinkThere ==
  ASSUME StoresOK, NEW x \in LowerTier, NEW S, lower' = [lower EXCEPT ![x] = Only(@, Cap \ S)]
  PROVE  ErasedAt(x, S)
<1> DEFINE e == Only(lower[x], Cap \ S)
<1>1. lower[x] \in Entries
  BY DEF StoresOK
<1>2. e \in Entries /\ \A d \in Cap : e[d] = IF d \in S THEN 0 ELSE lower[x][d]
  BY <1>1, OnlyThere
<1>3. lower' = [lower EXCEPT ![x] = e]
  OBVIOUS
<1> HIDE DEF e
<1>4. QED
  BY <1>2, <1>3 DEF ErasedAt, StoresOK

LEMMA WriteThere ==
  ASSUME StoresOK, NEW x \in LowerTier, NEW f \in Entries,
         lower' = [lower EXCEPT ![x] = Over(@, f)]
  PROVE  WrittenAt(x, f)
<1> DEFINE e == Over(lower[x], f)
<1>1. lower[x] \in Entries
  BY DEF StoresOK
<1>2. e \in Entries /\ \A d \in Cap : e[d] = IF f[d] # 0 THEN f[d] ELSE lower[x][d]
  BY <1>1 DEF Over, Entries
<1>3. lower' = [lower EXCEPT ![x] = e]
  OBVIOUS
<1> HIDE DEF e
<1>4. QED
  BY <1>2, <1>3 DEF WrittenAt, StoresOK

LEMMA FreeShape ==
  /\ Shape(Free) /\ IsFree(Free)
  /\ Free.held = Nothing /\ Free.snap = Nothing /\ Free.todo = {}
  /\ Free.from = "warm" /\ Free.to = "warm"
<1>1. (CHOOSE c \in Cap : TRUE) \in Cap
  BY TieredAssumption
<1>2. Free \in JobType({[warm |-> {}, cold |-> {}]})
  BY <1>1, NothingThere DEF JobType, Free, PC, Op, Tier, LowerTier
<1>3. QED
  BY <1>2 DEF Free, Shape, IsFree

\* The types of the fields of a job.
LEMMA ShapeFields ==
  ASSUME NEW j, Shape(j)
  PROVE  /\ j.pc \in PC /\ j.op \in Op /\ j.id \in Cap /\ j.vic \in Cap /\ j.from \in Tier
         /\ j.to \in Tier /\ j.held \in Entries /\ j.snap \in Entries /\ j.todo \subseteq Cap
  BY DEF Shape, JobType

\* The steps that begin an operation.
BeginsOp(t) ==
  /\ job[t].pc = "idle" /\ ops < MaxOps /\ ops' = ops + 1
  /\ calm' = (calm /\ IdleBut(t))
  /\ UNCHANGED <<hot, insertLock, lower, errors>>

LEMMA InsertEffect ==
  ASSUME StoresOK, NEW t \in Task, NEW c \in Cap, Insert(t, c)
  PROVE  \E r : /\ Becomes(t, r) /\ BeginsOp(t)
                /\ r.pc = "hot" /\ r.op = "insert" /\ r.id = c /\ r.vic = c
                /\ r.held[c] = ops + 1 /\ Keys(r.held) = {c}
                /\ latest' = [latest EXCEPT ![c] = ops + 1]
                /\ UNCHANGED <<order, excused>>
<1> DEFINE h == [Nothing EXCEPT ![c] = ops + 1]
           r == [Free EXCEPT !.pc = "hot", !.op = "insert", !.id = c, !.vic = c, !.held = h]
<1>1. ops + 1 \in 0 .. MaxOps /\ ops + 1 # 0
  BY TieredAssumption DEF Insert, Starts, StoresOK
<1>2. h \in Entries /\ h[c] = ops + 1 /\ Keys(h) = {c}
  BY <1>1, NothingThere DEF Entries, Keys
<1> HIDE DEF h
<1>3. PICK X : Free \in JobType(X)
  BY FreeShape DEF Shape
<1>4. /\ r \in JobType(X) /\ r.pc = "hot" /\ r.op = "insert" /\ r.id = c /\ r.vic = c
      /\ r.held = h
  BY <1>2, <1>3 DEF JobType, PC, Op
<1>5. job' = [job EXCEPT ![t] = r]
  BY DEF Insert, Starts, Go, h
<1> HIDE DEF r
<1>6. QED
  BY <1>2, <1>4, <1>5 DEF Insert, Starts, BeginsOp, Becomes, Shape

\* What a step leaves alone unless it begins an operation or fails.
Goes == UNCHANGED <<ops, errors, latest, calm>>

LEMMA GetHotEffect ==
  ASSUME NEW t \in Task, NEW c \in Cap, GetHot(t, c)
  PROVE  \E r : /\ Becomes(t, r) /\ BeginsOp(t) /\ IsFree(r)
                /\ order' = order \cup {c} /\ UNCHANGED <<latest, excused>>
  BY FreeShape DEF GetHot, Starts, Go, Becomes, BeginsOp

LEMMA GetMissEffect ==
  ASSUME NEW t \in Task, NEW c \in Cap, GetMiss(t, c)
  PROVE  \E r : /\ Becomes(t, r) /\ BeginsOp(t) /\ hot[c] = 0
                /\ r.pc = "look" /\ r.op = "get" /\ r.id = c /\ r.from = "warm"
                /\ r.held = Nothing
                /\ UNCHANGED <<order, latest, excused>>
<1> DEFINE r == [Free EXCEPT !.pc = "look", !.op = "get", !.id = c]
<1>1. PICK X : Free \in JobType(X)
  BY FreeShape DEF Shape
<1>2. /\ r \in JobType(X) /\ r.pc = "look" /\ r.op = "get" /\ r.id = c /\ r.from = "warm"
      /\ r.held = Nothing
  BY <1>1, FreeShape DEF JobType, PC, Op
<1>3. job' = [job EXCEPT ![t] = r]
  BY DEF GetMiss, Starts, Go
<1> HIDE DEF r
<1>4. QED
  BY <1>2, <1>3 DEF GetMiss, Starts, BeginsOp, Becomes, Shape

LEMMA DeleteEffect ==
  ASSUME NEW t \in Task, NEW c \in Cap, Delete(t, c)
  PROVE  \E r : /\ Becomes(t, r) /\ BeginsOp(t)
                /\ r.pc = "remove" /\ r.op = "delete" /\ r.from = "warm" /\ r.todo = {c}
                /\ latest' = [latest EXCEPT ![c] = 0]
                /\ excused' = excused \cup {c} /\ UNCHANGED order
<1> DEFINE r == [Free EXCEPT !.pc = "remove", !.op = "delete", !.todo = {c}]
<1>1. PICK X : Free \in JobType(X)
  BY FreeShape DEF Shape
<1>2. /\ r \in JobType(X) /\ r.pc = "remove" /\ r.op = "delete" /\ r.from = "warm"
      /\ r.todo = {c}
  BY <1>1, FreeShape DEF JobType, PC, Op
<1>3. job' = [job EXCEPT ![t] = r]
  BY DEF Delete, Starts, Go
<1> HIDE DEF r
<1>4. QED
  BY <1>2, <1>3 DEF Delete, Starts, BeginsOp, Becomes, Shape

LEMMA SnapshotEffect ==
  ASSUME StoresOK, NEW t \in Task, DecaySnapshot(t)
  PROVE  \E r : /\ Becomes(t, r) /\ BeginsOp(t)
                /\ r.pc = "meta" /\ r.op = "decay" /\ r.from = "warm" /\ r.held = Nothing
                /\ \A c \in Keys(r.snap) : r.snap[c] = hot[c]
                /\ UNCHANGED <<order, latest, excused>>
<1>1. PICK S \in SUBSET Keys(hot) :
        Starts(t, [Free EXCEPT !.pc = "meta", !.op = "decay", !.snap = Only(hot, S)])
  BY DEF DecaySnapshot
<1> DEFINE h == Only(hot, S)
           r == [Free EXCEPT !.pc = "meta", !.op = "decay", !.snap = h]
<1>2. h \in Entries /\ \A c \in Keys(h) : h[c] = hot[c]
  BY OnlyThere DEF Keys, StoresOK
<1>3. job' = [job EXCEPT ![t] = r]
  BY <1>1 DEF Starts, Go
<1> HIDE DEF h
<1>4. PICK X : Free \in JobType(X)
  BY FreeShape DEF Shape
<1>5. /\ r \in JobType(X) /\ r.pc = "meta" /\ r.op = "decay" /\ r.from = "warm"
      /\ r.held = Nothing /\ r.snap = h
  BY <1>2, <1>4, FreeShape DEF JobType, PC, Op
<1> HIDE DEF r
<1>6. QED
  BY <1>1, <1>2, <1>3, <1>5 DEF DecaySnapshot, Starts, BeginsOp, Becomes, Shape

LEMMA LsctStartEffect ==
  ASSUME StoresOK, NEW t \in Task, NEW c \in Cap, NEW from \in Tier, NEW to \in Tier,
         LsctStart(t, c, from, to)
  PROVE  \E r : /\ Becomes(t, r) /\ BeginsOp(t)
                /\ r.pc = (IF to = "hot" THEN "hot" ELSE "write") /\ r.op = "lsct"
                /\ r.id = c /\ r.from = from /\ r.to = to /\ from # to
                /\ r.held[c] # 0 /\ Keys(r.held) = {c}
                /\ UNCHANGED <<order, latest, excused>>
<1> DEFINE copy == IF from = "hot" THEN hot[c] ELSE lower[from][c]
           h == [Nothing EXCEPT ![c] = copy]
           r == [Free EXCEPT !.pc = IF to = "hot" THEN "hot" ELSE "write", !.op = "lsct",
                             !.id = c, !.from = from, !.to = to, !.held = h]
<1>1. copy \in 0 .. MaxOps /\ copy # 0 /\ from # to
  BY DEF LsctStart, StoresOK, Entries, Tier
<1>2. h \in Entries /\ h[c] # 0 /\ Keys(h) = {c}
  BY <1>1, NothingThere DEF Entries, Keys
<1>3. job' = [job EXCEPT ![t] = r]
  BY DEF LsctStart, Starts, Go
<1> HIDE DEF h
<1>4. PICK X : Free \in JobType(X)
  BY FreeShape DEF Shape
<1>5. /\ r \in JobType(X) /\ r.pc = (IF to = "hot" THEN "hot" ELSE "write") /\ r.op = "lsct"
      /\ r.id = c /\ r.from = from /\ r.to = to /\ r.held = h
  BY <1>2, <1>4 DEF JobType, PC, Op
<1> HIDE DEF r
<1>6. QED
  BY <1>1, <1>2, <1>3, <1>5 DEF LsctStart, Starts, BeginsOp, Becomes, Shape

LEMMA HotLockEffect ==
  ASSUME NEW t \in Task, Shape(job[t]), HotLock(t)
  PROVE  \E r : /\ Becomes(t, r) /\ Goes /\ job[t].pc = "hot" /\ Carries(r, job[t])
                /\ r.vic = job[t].id /\ r.pc \in {"evict", "order"}
                /\ r.pc = "evict" => hot[r.id] = 0
                /\ r.pc = "order" => hot[r.id] # 0 \/ ~(Cardinality(Keys(hot)) >= Capacity)
                /\ insertLock = {} /\ insertLock' = {t}
                /\ UNCHANGED <<hot, order, lower, excused>>
<1> DEFINE c == job[t].id
           full == hot[c] = 0 /\ Cardinality(Keys(hot)) >= Capacity
           p == IF full THEN "evict" ELSE "order"
           r == [job[t] EXCEPT !.pc = p, !.vic = c]
<1>1. /\ job' = [job EXCEPT ![t] = r] /\ p \in {"evict", "order"}
      /\ p = "evict" => hot[c] = 0
      /\ p = "order" => hot[c] # 0 \/ ~(Cardinality(Keys(hot)) >= Capacity)
  BY DEF HotLock, Go
<1> HIDE DEF p
<1>2. PICK X : job[t] \in JobType(X)
  BY DEF Shape
<1>3. r \in JobType(X) /\ r.pc = p /\ r.vic = c /\ Carries(r, job[t])
  BY <1>1, <1>2 DEF JobType, PC, Carries
<1> HIDE DEF r
<1>4. QED
  BY <1>1, <1>3 DEF HotLock, Becomes, Shape, Goes, Carries

LEMMA HotEvictEffect ==
  ASSUME NEW t \in Task, Shape(job[t]), order \subseteq Cap, HotEvict(t)
  PROVE  \E r : /\ Becomes(t, r) /\ Goes /\ job[t].pc = "evict" /\ Carries(r, job[t])
                /\ \/ /\ r.pc = "order" /\ r.vic = job[t].vic
                      /\ order' = order /\ (Keys(hot) = {} \/ order = {})
                   \/ r.pc = "evicted" /\ r.vic \in order /\ order' = order \ {r.vic}
                /\ UNCHANGED <<hot, insertLock, lower, excused>>
<1>x. PICK X : job[t] \in JobType(X)
  BY DEF Shape
<1>1. CASE /\ Go(t, [job[t] EXCEPT !.pc = "order"]) /\ UNCHANGED order
           /\ Keys(hot) = {} \/ order = {}
  <2> DEFINE r == [job[t] EXCEPT !.pc = "order"]
  <2>1. job' = [job EXCEPT ![t] = r]
    BY <1>1 DEF Go
  <2>2. r \in JobType(X) /\ r.pc = "order" /\ r.vic = job[t].vic /\ Carries(r, job[t])
    BY <1>x DEF JobType, PC, Carries
  <2> HIDE DEF r
  <2>3. QED
    BY <1>1, <2>1, <2>2 DEF HotEvict, Becomes, Shape, Goes
<1>2. ASSUME NEW v \in order, order' = order \ {v},
             Go(t, [job[t] EXCEPT !.pc = "evicted", !.vic = v])
      PROVE  \E r : /\ Becomes(t, r) /\ Carries(r, job[t]) /\ r.pc = "evicted"
                    /\ r.vic \in order /\ order' = order \ {r.vic}
  <2> DEFINE r == [job[t] EXCEPT !.pc = "evicted", !.vic = v]
  <2>1. job' = [job EXCEPT ![t] = r]
    BY <1>2 DEF Go
  <2>2. r \in JobType(X) /\ r.pc = "evicted" /\ r.vic = v /\ Carries(r, job[t])
    BY <1>x DEF JobType, PC, Carries
  <2> HIDE DEF r
  <2>3. QED
    BY <1>2, <2>1, <2>2 DEF Becomes, Shape
<1>3. QED
  BY <1>1, <1>2 DEF HotEvict, Goes

LEMMA HotEvictedEffect ==
  ASSUME StoresOK, NEW t \in Task, Shape(job[t]), HotEvicted(t)
  PROVE  \E r : /\ Becomes(t, r) /\ Goes /\ job[t].pc = "evicted" /\ r.pc = "order"
                /\ r.op = job[t].op /\ r.id = job[t].id /\ r.from = job[t].from
                /\ r.to = job[t].to
                /\ hot' \in Entries
                /\ \A c \in Cap : hot'[c] = IF c = job[t].vic THEN 0 ELSE hot[c]
                /\ IF hot[job[t].vic] = 0
                   THEN r.vic = r.id /\ r.held = job[t].held
                   ELSE /\ r.vic = job[t].vic
                        /\ \A c \in Cap : r.held[c] = IF c = r.vic THEN hot[c] ELSE job[t].held[c]
                /\ UNCHANGED <<order, insertLock, lower, excused>>
<1> DEFINE v == job[t].vic
           h == [job[t].held EXCEPT ![v] = hot[v]]
<1>x. PICK X : job[t] \in JobType(X)
  BY DEF Shape
<1>0. job[t].held \in Entries /\ v \in Cap
  BY ShapeFields
<1>h. hot' \in Entries /\ \A c \in Cap : hot'[c] = IF c = v THEN 0 ELSE hot[c]
  BY <1>0, TieredAssumption DEF HotEvicted, StoresOK, Entries
<1>1. CASE hot[v] = 0
  <2> DEFINE r == [job[t] EXCEPT !.pc = "order", !.vic = job[t].id]
  <2>1. job' = [job EXCEPT ![t] = r]
    BY <1>1 DEF HotEvicted, Go
  <2>2. r \in JobType(X) /\ r.pc = "order" /\ r.vic = r.id /\ Carries(r, job[t])
    BY <1>x DEF JobType, PC, Carries
  <2> HIDE DEF r
  <2>3. QED
    BY <1>1, <1>h, <2>1, <2>2 DEF HotEvicted, Becomes, Shape, Goes, Carries
<1>2. CASE hot[v] # 0
  <2>0. h \in Entries /\ \A c \in Cap : h[c] = IF c = v THEN hot[c] ELSE job[t].held[c]
    BY <1>0 DEF Entries, StoresOK
  <2> DEFINE r == [job[t] EXCEPT !.pc = "order", !.held = h]
  <2>1. job' = [job EXCEPT ![t] = r]
    <3>1. [job[t] EXCEPT !.pc = "order", !.held[v] = hot[v]] = r
      BY <1>x DEF JobType
    <3>2. QED
      BY <1>2, <3>1 DEF HotEvicted, Go
  <2> HIDE DEF h
  <2>2. /\ r \in JobType(X) /\ r.pc = "order" /\ r.vic = v /\ r.held = h /\ r.op = job[t].op
        /\ r.id = job[t].id /\ r.from = job[t].from /\ r.to = job[t].to
    BY <1>x, <2>0 DEF JobType, PC
  <2> HIDE DEF r
  <2>3. QED
    BY <1>2, <1>h, <2>0, <2>1, <2>2 DEF HotEvicted, Becomes, Shape, Goes
<1>3. QED
  BY <1>1, <1>2

LEMMA HotOrderEffect ==
  ASSUME NEW t \in Task, Shape(job[t]), HotOrder(t)
  PROVE  \E r : /\ Becomes(t, r) /\ Goes /\ job[t].pc = "order" /\ Carries(r, job[t])
                /\ r.pc = "put" /\ r.vic = job[t].vic
                /\ order' = order \cup {r.id}
                /\ UNCHANGED <<hot, insertLock, lower, excused>>
<1> DEFINE r == [job[t] EXCEPT !.pc = "put"]
<1>x. PICK X : job[t] \in JobType(X)
  BY DEF Shape
<1>1. r \in JobType(X) /\ r.pc = "put" /\ r.vic = job[t].vic /\ Carries(r, job[t])
  BY <1>x DEF JobType, PC, Carries
<1>2. job' = [job EXCEPT ![t] = r]
  BY DEF HotOrder, Go
<1> HIDE DEF r
<1>3. QED
  BY <1>1, <1>2 DEF HotOrder, Becomes, Shape, Goes, Carries

\* r is what j was, at another place, but for what it carries.
Same(r, j) == r.op = j.op /\ r.id = j.id /\ r.from = j.from /\ r.to = j.to

\* The hot tier with the entry of c set to e.
HotSet(c, e) ==
  /\ hot' \in Entries
  /\ \A d \in Cap : hot'[d] = IF d = c THEN e ELSE hot[d]

LEMMA HotPutEffect ==
  ASSUME StoresOK, NEW t \in Task, Shape(job[t]), HotPut(t)
  PROVE  \E r : /\ Becomes(t, r) /\ Goes /\ job[t].pc = "put"
                /\ HotSet(job[t].id, job[t].held[job[t].id])
                /\ \/ /\ job[t].vic = job[t].id /\ job[t].op = "lsct"
                      /\ r.pc = "erase" /\ Same(r, job[t])
                   \/ job[t].vic = job[t].id /\ job[t].op # "lsct" /\ IsFree(r)
                   \/ /\ job[t].vic # job[t].id
                      /\ r.pc = "spill" /\ Same(r, job[t]) /\ r.vic = job[t].vic
                      /\ \A d \in Cap : r.held[d] = IF d = r.id THEN 0 ELSE job[t].held[d]
                /\ insertLock' = {} /\ UNCHANGED <<order, lower, excused>>
<1> DEFINE c == job[t].id
           h == [job[t].held EXCEPT ![c] = 0]
           j == [job[t] EXCEPT !.held = h]
<1>0. /\ job[t].held \in [Cap -> 0 .. MaxOps] /\ c \in Cap /\ 0 \in 0 .. MaxOps
      /\ hot \in [Cap -> 0 .. MaxOps]
  BY ShapeFields, TieredAssumption DEF StoresOK, Entries
<1>x. PICK X : job[t] \in JobType(X)
  BY DEF Shape
<1>1. h \in Entries /\ \A d \in Cap : h[d] = IF d = c THEN 0 ELSE job[t].held[d]
  BY <1>0 DEF Entries
<1>2. j = [job[t] EXCEPT !.held[job[t].id] = 0]
  BY <1>x DEF JobType
<1>3. /\ j \in JobType(X) /\ Same(j, job[t]) /\ j.vic = job[t].vic /\ j.held = h
  <2> HIDE DEF h
  <2> QED
    BY <1>x, <1>1 DEF JobType, Same
<1>4. /\ job[t].pc = "put" /\ Goes
      /\ hot' = [hot EXCEPT ![c] = job[t].held[c]]
      /\ insertLock' = {} /\ UNCHANGED <<order, lower, excused>>
      /\ Go(t, IF j.vic = c THEN AfterHot(j) ELSE [j EXCEPT !.pc = "spill"])
  <2> HIDE DEF j
  <2> QED
    BY <1>2, <1>3 DEF HotPut, Goes, Same
<1>5. HotSet(c, job[t].held[c])
  BY <1>0, <1>4 DEF HotSet, Entries
<1> HIDE DEF h, j
<1>6. CASE job[t].vic = c /\ job[t].op = "lsct"
  <2> DEFINE r == [j EXCEPT !.pc = "erase"]
  <2>1. job' = [job EXCEPT ![t] = r]
    BY <1>3, <1>4, <1>6 DEF Go, AfterHot, Same
  <2>2. r \in JobType(X) /\ r.pc = "erase" /\ Same(r, job[t])
    BY <1>3 DEF JobType, PC, Same
  <2> HIDE DEF r
  <2>3. QED
    BY <1>4, <1>5, <1>6, <2>1, <2>2 DEF Becomes, Shape
<1>7. CASE job[t].vic = c /\ job[t].op # "lsct"
  <2>1. job' = [job EXCEPT ![t] = Free]
    BY <1>3, <1>4, <1>7 DEF Go, AfterHot, Same
  <2>2. QED
    BY <1>4, <1>5, <1>7, <2>1, FreeShape DEF Becomes
<1>8. CASE job[t].vic # c
  <2> DEFINE r == [j EXCEPT !.pc = "spill"]
  <2>1. job' = [job EXCEPT ![t] = r]
    BY <1>3, <1>4, <1>8 DEF Go
  <2>2. /\ r \in JobType(X) /\ r.pc = "spill" /\ Same(r, job[t]) /\ r.vic = job[t].vic
        /\ r.held = h
    BY <1>3 DEF JobType, PC, Same
  <2> HIDE DEF r
  <2>3. \A d \in Cap : r.held[d] = IF d = r.id THEN 0 ELSE job[t].held[d]
    BY <1>1, <2>2 DEF Same
  <2>4. QED
    BY <1>4, <1>5, <1>8, <2>1, <2>2, <2>3 DEF Becomes, Shape
<1>9. QED
  BY <1>6, <1>7, <1>8

LEMMA SpillEffect ==
  ASSUME StoresOK, NEW t \in Task, Shape(job[t]), Spill(t)
  PROVE  \E r : /\ Becomes(t, r) /\ Goes /\ job[t].pc = "spill"
                /\ WrittenAt("warm", job[t].held)
                /\ \/ job[t].op = "lsct" /\ r.pc = "erase" /\ Same(r, job[t])
                   \/ job[t].op # "lsct" /\ IsFree(r)
                /\ UNCHANGED <<hot, order, insertLock, excused>>
<1> DEFINE j == [job[t] EXCEPT !.held = Nothing]
<1>x. PICK X : job[t] \in JobType(X)
  BY DEF Shape
<1>1. j \in JobType(X) /\ Same(j, job[t])
  BY <1>x, NothingThere DEF JobType, Same
<1>2. WrittenAt("warm", job[t].held)
  BY ShapeFields, WriteThere DEF Spill, LowerTier
<1>3. Go(t, AfterHot(j)) /\ job[t].pc = "spill" /\ Goes
  BY DEF Spill, Goes
<1> HIDE DEF j
<1>4. CASE job[t].op = "lsct"
  <2> DEFINE r == [j EXCEPT !.pc = "erase"]
  <2>1. job' = [job EXCEPT ![t] = r]
    BY <1>1, <1>3, <1>4 DEF Go, AfterHot, Same
  <2>2. r \in JobType(X) /\ r.pc = "erase" /\ Same(r, job[t])
    BY <1>1 DEF JobType, PC, Same
  <2> HIDE DEF r
  <2>3. QED
    BY <1>2, <1>3, <1>4, <2>1, <2>2 DEF Spill, Becomes, Shape
<1>5. CASE job[t].op # "lsct"
  <2>1. job' = [job EXCEPT ![t] = Free]
    BY <1>1, <1>3, <1>5 DEF Go, AfterHot, Same
  <2>2. QED
    BY <1>2, <1>3, <1>5, <2>1, FreeShape DEF Spill, Becomes
<1>6. QED
  BY <1>4, <1>5

LEMMA LookEffect ==
  ASSUME StoresOK, NEW t \in Task, Shape(job[t]), job[t].from \in LowerTier, Look(t)
  PROVE  \E r : /\ Becomes(t, r) /\ Goes /\ job[t].pc = "look"
                /\ \/ /\ lower[job[t].from][job[t].id] # 0
                      /\ r.pc = "take" /\ Same(r, job[t])
                      /\ \A d \in Cap : r.held[d] = IF d = r.id THEN lower[r.from][d]
                                                    ELSE job[t].held[d]
                   \/ /\ lower[job[t].from][job[t].id] = 0
                      /\ job[t].from = "ice" /\ IsFree(r)
                   \/ /\ lower[job[t].from][job[t].id] = 0
                      /\ job[t].from # "ice" /\ r.pc = "look" /\ r.from = TierBelow[job[t].from]
                      /\ r.op = job[t].op /\ r.id = job[t].id /\ r.held = job[t].held
                /\ UNCHANGED <<hot, order, insertLock, lower, excused>>
<1> DEFINE j == job[t]
           e == lower[j.from][j.id]
           h == [j.held EXCEPT ![j.id] = e]
<1>x. PICK X : job[t] \in JobType(X)
  BY DEF Shape
<1>0. j.held \in [Cap -> 0 .. MaxOps] /\ j.id \in Cap /\ e \in 0 .. MaxOps
  BY ShapeFields DEF StoresOK, Entries
<1>1. CASE e # 0
  <2>1. h \in Entries /\ \A d \in Cap : h[d] = IF d = j.id THEN lower[j.from][d] ELSE j.held[d]
    BY <1>0 DEF Entries
  <2> DEFINE r == [j EXCEPT !.pc = "take", !.held = h]
  <2>2. job' = [job EXCEPT ![t] = r]
    <3>1. [j EXCEPT !.pc = "take", !.held[j.id] = e] = r
      BY <1>x DEF JobType
    <3>2. QED
      BY <1>1, <3>1 DEF Look, Go
  <2> HIDE DEF h
  <2>3. r \in JobType(X) /\ r.pc = "take" /\ Same(r, j) /\ r.held = h
    BY <1>x, <2>1 DEF JobType, PC, Same
  <2> HIDE DEF r
  <2>4. \A d \in Cap : r.held[d] = IF d = r.id THEN lower[r.from][d] ELSE j.held[d]
    BY <2>1, <2>3 DEF Same
  <2>5. QED
    BY <1>1, <2>2, <2>3, <2>4 DEF Look, Becomes, Shape, Goes
<1>2. CASE e = 0 /\ j.from = "ice"
  <2>1. job' = [job EXCEPT ![t] = Free]
    BY <1>2 DEF Look, Go
  <2>2. QED
    BY <1>2, <2>1, FreeShape DEF Look, Becomes, Goes
<1>3. CASE e = 0 /\ j.from # "ice"
  <2> DEFINE r == [j EXCEPT !.from = TierBelow[j.from]]
  <2>1. job' = [job EXCEPT ![t] = r]
    BY <1>3 DEF Look, Go
  <2>2. TierBelow[j.from] \in Tier
    BY <1>3 DEF TierBelow, Tier, LowerTier
  <2>3. /\ r \in JobType(X) /\ r.pc = j.pc /\ r.from = TierBelow[j.from] /\ r.op = j.op
        /\ r.id = j.id /\ r.held = j.held
    BY <1>x, <2>2 DEF JobType
  <2> HIDE DEF r
  <2>4. QED
    BY <1>3, <2>1, <2>3 DEF Look, Becomes, Shape, Goes
<1>4. QED
  BY <1>1, <1>2, <1>3

LEMMA TakeCopyEffect ==
  ASSUME StoresOK, NEW t \in Task, Shape(job[t]), job[t].from \in LowerTier, TakeCopy(t)
  PROVE  \E r : /\ Becomes(t, r) /\ Goes /\ job[t].pc = "take"
                /\ ErasedAt(job[t].from, {job[t].id})
                /\ r.pc = "hot" /\ Carries(r, job[t])
                /\ UNCHANGED <<hot, order, insertLock, excused>>
<1> DEFINE r == [job[t] EXCEPT !.pc = "hot"]
<1>x. PICK X : job[t] \in JobType(X)
  BY DEF Shape
<1>1. r \in JobType(X) /\ r.pc = "hot" /\ Carries(r, job[t])
  BY <1>x DEF JobType, PC, Carries
<1>2. job' = [job EXCEPT ![t] = r]
  BY DEF TakeCopy, Go
<1>3. ErasedAt(job[t].from, {job[t].id})
  BY ShapeFields, EraseThere DEF TakeCopy
<1> HIDE DEF r
<1>4. QED
  BY <1>1, <1>2, <1>3 DEF TakeCopy, Becomes, Shape, Goes

LEMMA RemoveOrderEffect ==
  ASSUME NEW t \in Task, Shape(job[t]), RemoveOrder(t)
  PROVE  \E r : /\ Becomes(t, r) /\ Goes /\ job[t].pc = "remove"
                /\ r.pc = "removed" /\ r.id \in job[t].todo /\ r.op = job[t].op
                /\ r.from = job[t].from /\ r.to = job[t].to /\ r.held = job[t].held
                /\ r.todo = job[t].todo /\ order' = order \ {r.id}
                /\ UNCHANGED <<hot, insertLock, lower, excused>>
<1>1. PICK c \in job[t].todo :
        order' = order \ {c} /\ Go(t, [job[t] EXCEPT !.pc = "removed", !.id = c])
  BY DEF RemoveOrder
<1> DEFINE r == [job[t] EXCEPT !.pc = "removed", !.id = c]
<1>x. PICK X : job[t] \in JobType(X)
  BY DEF Shape
<1>2. c \in Cap
  BY ShapeFields
<1>3. /\ r \in JobType(X) /\ r.pc = "removed" /\ r.id = c /\ r.op = job[t].op
      /\ r.from = job[t].from /\ r.to = job[t].to /\ r.held = job[t].held
      /\ r.todo = job[t].todo
  BY <1>x, <1>2 DEF JobType, PC
<1>4. job' = [job EXCEPT ![t] = r]
  BY <1>1 DEF Go
<1> HIDE DEF r
<1>5. QED
  BY <1>1, <1>3, <1>4 DEF RemoveOrder, Becomes, Shape, Goes

LEMMA RemoveEntryEffect ==
  ASSUME StoresOK, NEW t \in Task, Shape(job[t]), RemoveEntry(t)
  PROVE  \E r : /\ Becomes(t, r) /\ Goes /\ job[t].pc = "removed" /\ HotSet(job[t].id, 0)
                /\ \/ /\ r.pc = "remove" /\ Same(r, job[t]) /\ r.held = job[t].held
                      /\ r.todo = job[t].todo \ {job[t].id} /\ r.todo # {}
                   \/ /\ r.pc = "purge" /\ Same(r, job[t]) /\ job[t].op = "delete"
                      /\ job[t].todo \subseteq {job[t].id}
                   \/ /\ r.pc = "batch" /\ Same(r, job[t]) /\ job[t].op = "decay"
                      /\ r.held = job[t].held /\ job[t].todo \subseteq {job[t].id}
                   \/ job[t].op \notin {"delete", "decay"} /\ IsFree(r)
                /\ Excuse(t) /\ UNCHANGED <<order, insertLock, lower>>
<1> DEFINE D == job[t].todo \ {job[t].id}
           j == [job[t] EXCEPT !.todo = D]
<1>x. PICK X : job[t] \in JobType(X)
  BY DEF Shape
<1>0. job[t].id \in Cap /\ D \subseteq Cap
  BY ShapeFields
<1>h. HotSet(job[t].id, 0)
  BY <1>0, TieredAssumption DEF RemoveEntry, HotSet, StoresOK, Entries
<1>1. /\ j \in JobType(X) /\ Same(j, job[t]) /\ j.held = job[t].held /\ j.todo = D
  BY <1>x, <1>0 DEF JobType, Same
<1>2. /\ Go(t, IF j.todo # {} THEN [j EXCEPT !.pc = "remove"]
               ELSE CASE j.op = "delete" -> [j EXCEPT !.pc = "purge"]
                      [] j.op = "decay"  -> [j EXCEPT !.pc = "batch"]
                      [] OTHER           -> Free)
      /\ job[t].pc = "removed" /\ Goes /\ Excuse(t) /\ UNCHANGED <<order, insertLock, lower>>
  BY DEF RemoveEntry, Goes
<1> HIDE DEF D, j
<1>3. CASE D # {}
  <2> DEFINE r == [j EXCEPT !.pc = "remove"]
  <2>1. job' = [job EXCEPT ![t] = r]
    BY <1>1, <1>2, <1>3 DEF Go
  <2>2. /\ r \in JobType(X) /\ r.pc = "remove" /\ Same(r, job[t]) /\ r.held = job[t].held
        /\ r.todo = D
    BY <1>1 DEF JobType, PC, Same
  <2> HIDE DEF r
  <2>3. QED
    BY <1>2, <1>3, <1>h, <2>1, <2>2 DEF Becomes, Shape, D
<1>4. CASE D = {} /\ job[t].op = "delete"
  <2> DEFINE r == [j EXCEPT !.pc = "purge"]
  <2>1. job' = [job EXCEPT ![t] = r]
    BY <1>1, <1>2, <1>4 DEF Go, Same
  <2>2. r \in JobType(X) /\ r.pc = "purge" /\ Same(r, job[t])
    BY <1>1 DEF JobType, PC, Same
  <2> HIDE DEF r
  <2>3. QED
    BY <1>2, <1>4, <1>h, <2>1, <2>2 DEF Becomes, Shape, D
<1>5. CASE D = {} /\ job[t].op = "decay"
  <2> DEFINE r == [j EXCEPT !.pc = "batch"]
  <2>1. job' = [job EXCEPT ![t] = r]
    BY <1>1, <1>2, <1>5 DEF Go, Same
  <2>2. r \in JobType(X) /\ r.pc = "batch" /\ Same(r, job[t]) /\ r.held = job[t].held
    BY <1>1 DEF JobType, PC, Same
  <2> HIDE DEF r
  <2>3. QED
    BY <1>2, <1>5, <1>h, <2>1, <2>2 DEF Becomes, Shape, D
<1>6. CASE D = {} /\ job[t].op \notin {"delete", "decay"}
  <2>1. job' = [job EXCEPT ![t] = Free]
    BY <1>1, <1>2, <1>6 DEF Go, Same
  <2>2. QED
    BY <1>2, <1>6, <1>h, <2>1, FreeShape DEF Becomes
<1>7. QED
  BY <1>3, <1>4, <1>5, <1>6

LEMMA PurgeEffect ==
  ASSUME StoresOK, NEW t \in Task, Shape(job[t]), job[t].from \in LowerTier, Purge(t)
  PROVE  \E r : /\ Becomes(t, r) /\ Goes /\ job[t].pc = "purge"
                /\ ErasedAt(job[t].from, {job[t].id})
                /\ \/ job[t].from = "ice" /\ IsFree(r)
                   \/ /\ job[t].from # "ice" /\ r.pc = "purge" /\ r.from = TierBelow[job[t].from]
                      /\ r.op = job[t].op /\ r.id = job[t].id
                /\ UNCHANGED <<hot, order, insertLock, excused>>
<1> DEFINE j == job[t]
<1>x. PICK X : job[t] \in JobType(X)
  BY DEF Shape
<1>0. ErasedAt(j.from, {j.id})
  BY ShapeFields, EraseThere DEF Purge
<1>1. CASE j.from = "ice"
  <2>1. job' = [job EXCEPT ![t] = Free]
    BY <1>1 DEF Purge, Go
  <2>2. QED
    BY <1>0, <1>1, <2>1, FreeShape DEF Purge, Becomes, Goes
<1>2. CASE j.from # "ice"
  <2> DEFINE r == [j EXCEPT !.from = TierBelow[j.from]]
  <2>1. job' = [job EXCEPT ![t] = r]
    BY <1>2 DEF Purge, Go
  <2>2. TierBelow[j.from] \in Tier
    BY <1>2 DEF TierBelow, Tier, LowerTier
  <2>3. /\ r \in JobType(X) /\ r.pc = j.pc /\ r.from = TierBelow[j.from] /\ r.op = j.op
        /\ r.id = j.id
    BY <1>x, <2>2 DEF JobType
  <2> HIDE DEF r
  <2>4. QED
    BY <1>0, <1>2, <2>1, <2>3 DEF Purge, Becomes, Shape, Goes
<1>3. QED
  BY <1>1, <1>2

LEMMA DecayMetaEffect ==
  ASSUME NEW t \in Task, Shape(job[t]), job[t].from \in {"warm", "cold"}, DecayMeta(t)
  PROVE  \E r : /\ Becomes(t, r) /\ Goes /\ job[t].pc = "meta"
                /\ \/ job[t].from = "warm" /\ r.pc = "meta" /\ r.from = "cold"
                   \/ job[t].from = "cold" /\ r.pc = "filter"
                /\ r.op = job[t].op /\ r.snap = job[t].snap
                /\ UNCHANGED <<hot, order, insertLock, lower, excused>>
<1> DEFINE j == job[t]
           p == IF j.from = "warm" THEN "meta" ELSE "filter"
<1>1. PICK S : Go(t, [j EXCEPT !.cand[j.from] = S, !.from = TierBelow[j.from], !.pc = p])
  BY DEF DecayMeta
<1>x. PICK X : job[t] \in JobType(X)
  BY DEF Shape
<1> DEFINE k == [j.cand EXCEPT ![j.from] = S]
           r == [j EXCEPT !.cand = k, !.from = TierBelow[j.from], !.pc = p]
<1>2. TierBelow[j.from] \in {"cold", "ice"} /\ p \in PC /\ (j.from = "warm" => TierBelow[j.from] = "cold")
  BY DEF TierBelow, PC
<1>3. job' = [job EXCEPT ![t] = r]
  <2>1. [j EXCEPT !.cand[j.from] = S, !.from = TierBelow[j.from], !.pc = p] = r
    BY <1>x DEF JobType
  <2>2. QED
    BY <1>1, <2>1 DEF Go
<1> HIDE DEF k
<1>4. /\ r \in JobType({k}) /\ r.pc = p /\ r.from = TierBelow[j.from] /\ r.op = j.op
      /\ r.snap = j.snap
  BY <1>x, <1>2 DEF JobType, Tier, LowerTier
<1> HIDE DEF r
<1>5. QED
  BY <1>2, <1>3, <1>4 DEF DecayMeta, Becomes, Shape, Goes

LEMMA DecayFilterEffect ==
  ASSUME NEW t \in Task, Shape(job[t]), DecayFilter(t)
  PROVE  \E r : /\ Becomes(t, r) /\ Goes /\ job[t].pc = "filter"
                /\ r.op = job[t].op /\ r.from = "warm" /\ r.to = "warm"
                /\ r.held = Only(job[t].snap, Keys(hot))
                /\ \/ r.pc = "peek" /\ Keys(r.held) = {}
                   \/ r.pc = "remove" /\ r.todo = Keys(r.held)
                /\ UNCHANGED <<hot, order, insertLock, lower, excused>>
<1> DEFINE h == Only(job[t].snap, Keys(hot))
           j == [job[t] EXCEPT !.held = h, !.snap = Nothing, !.from = "warm", !.to = "warm"]
<1>x. PICK X : job[t] \in JobType(X)
  BY DEF Shape
<1>1. h \in Entries /\ Keys(h) \subseteq Cap
  BY ShapeFields, OnlyThere DEF Keys
<1>2. /\ Go(t, IF Keys(j.held) = {} THEN [j EXCEPT !.pc = "peek"]
               ELSE [j EXCEPT !.pc = "remove", !.todo = Keys(j.held)])
      /\ job[t].pc = "filter" /\ Goes /\ UNCHANGED <<hot, order, insertLock, lower, excused>>
  BY DEF DecayFilter, Goes
<1> HIDE DEF h
<1>3. j \in JobType(X) /\ j.op = job[t].op /\ j.from = "warm" /\ j.to = "warm" /\ j.held = h
  BY <1>x, <1>1, NothingThere DEF JobType, Tier, LowerTier
<1> HIDE DEF j
<1>4. CASE Keys(h) = {}
  <2> DEFINE r == [j EXCEPT !.pc = "peek"]
  <2>1. job' = [job EXCEPT ![t] = r]
    BY <1>2, <1>3, <1>4 DEF Go
  <2>2. /\ r \in JobType(X) /\ r.pc = "peek" /\ r.op = job[t].op /\ r.from = "warm"
        /\ r.to = "warm" /\ r.held = h
    BY <1>3 DEF JobType, PC
  <2> HIDE DEF r
  <2>3. QED
    BY <1>2, <1>4, <2>1, <2>2 DEF Becomes, Shape, h
<1>5. CASE Keys(h) # {}
  <2> DEFINE r == [j EXCEPT !.pc = "remove", !.todo = Keys(h)]
  <2>1. job' = [job EXCEPT ![t] = r]
    BY <1>2, <1>3, <1>5 DEF Go
  <2>2. /\ r \in JobType(X) /\ r.pc = "remove" /\ r.op = job[t].op /\ r.from = "warm"
        /\ r.to = "warm" /\ r.held = h /\ r.todo = Keys(h)
    BY <1>1, <1>3 DEF JobType, PC
  <2> HIDE DEF r
  <2>3. QED
    BY <1>2, <2>1, <2>2 DEF Becomes, Shape, h
<1>6. QED
  BY <1>4, <1>5

\* r has read the entry of c.
Peeked(r, j, c) ==
  \A d \in Cap : r.held[d] = IF d = c THEN lower[r.from][d] ELSE j.held[d]

LEMMA DecayPeekEffect ==
  ASSUME StoresOK, NEW t \in Task, Shape(job[t]), job[t].from \in {"warm", "cold"}, DecayPeek(t)
  PROVE  \E r : /\ Becomes(t, r) /\ Goes /\ job[t].pc = "peek"
                /\ \/ /\ r.pc = "peek" /\ Same(r, job[t])
                      /\ \E c : Peeked(r, job[t], c)
                   \/ r.pc = "unlink" /\ Carries(r, job[t])
                   \/ /\ job[t].from = "warm" /\ Keys(job[t].held) = {}
                      /\ r.pc = "peek" /\ r.from = "cold" /\ r.op = job[t].op
                      /\ r.held = job[t].held
                   \/ Keys(job[t].held) = {} /\ IsFree(r)
                /\ UNCHANGED <<hot, order, insertLock, lower, excused>>
<1> DEFINE j == job[t]
           C == j.cand[j.from]
<1>x. PICK X : job[t] \in JobType(X)
  BY DEF Shape
<1>0. /\ job[t].pc = "peek" /\ Goes /\ UNCHANGED <<hot, order, insertLock, lower, excused>>
  BY DEF DecayPeek, Goes
<1>1. ASSUME NEW c \in C, Go(t, [j EXCEPT !.cand[j.from] = C \ {c}, !.held[c] = lower[j.from][c]])
      PROVE  \E r : Becomes(t, r) /\ r.pc = "peek" /\ Same(r, j) /\ Peeked(r, j, c)
  <2> DEFINE h == [j.held EXCEPT ![c] = lower[j.from][c]]
             k == [j.cand EXCEPT ![j.from] = C \ {c}]
             r == [j EXCEPT !.cand = k, !.held = h]
  <2>1. j.held \in [Cap -> 0 .. MaxOps] /\ lower[j.from] \in [Cap -> 0 .. MaxOps]
    BY ShapeFields DEF StoresOK, Entries, LowerTier
  <2>2. h \in Entries /\ \A d \in Cap : h[d] = IF d = c THEN lower[j.from][d] ELSE j.held[d]
    BY <2>1 DEF Entries
  <2>3. job' = [job EXCEPT ![t] = r]
    <3>1. [j EXCEPT !.cand[j.from] = C \ {c}, !.held[c] = lower[j.from][c]] = r
      BY <1>x DEF JobType
    <3>2. QED
      BY <1>1, <3>1 DEF Go
  <2> HIDE DEF h, k
  <2>4. r \in JobType({k}) /\ r.pc = j.pc /\ Same(r, j) /\ r.held = h
    BY <1>x, <2>2 DEF JobType, Same
  <2> HIDE DEF r
  <2>5. Peeked(r, j, c)
    BY <2>2, <2>4 DEF Same, Peeked
  <2>6. QED
    BY <1>0, <2>3, <2>4, <2>5 DEF Becomes, Shape
<1>2. CASE Go(t, [j EXCEPT !.pc = "unlink"])
  <2> DEFINE r == [j EXCEPT !.pc = "unlink"]
  <2>1. job' = [job EXCEPT ![t] = r]
    BY <1>2 DEF Go
  <2>2. r \in JobType(X) /\ r.pc = "unlink" /\ Carries(r, j)
    BY <1>x DEF JobType, PC, Carries
  <2> HIDE DEF r
  <2>3. QED
    BY <1>0, <2>1, <2>2 DEF Becomes, Shape
<1>3. CASE Keys(j.held) = {} /\ j.from = "warm" /\ Go(t, [j EXCEPT !.from = "cold"])
  <2> DEFINE r == [j EXCEPT !.from = "cold"]
  <2>1. job' = [job EXCEPT ![t] = r]
    BY <1>3 DEF Go
  <2>2. /\ r \in JobType(X) /\ r.pc = j.pc /\ r.from = "cold" /\ r.op = j.op
        /\ r.held = j.held
    BY <1>x DEF JobType, Tier, LowerTier
  <2> HIDE DEF r
  <2>3. QED
    BY <1>0, <1>3, <2>1, <2>2 DEF Becomes, Shape
<1>4. CASE Keys(j.held) = {} /\ Go(t, Free)
  <2>1. job' = [job EXCEPT ![t] = Free]
    BY <1>4 DEF Go
  <2>2. QED
    BY <1>0, <1>4, <2>1, FreeShape DEF Becomes
<1>5. \/ \E c \in C : Go(t, [j EXCEPT !.cand[j.from] = C \ {c}, !.held[c] = lower[j.from][c]])
      \/ Go(t, [j EXCEPT !.pc = "unlink"])
      \/ Keys(j.held) = {} /\ Go(t, IF j.from = "warm" THEN [j EXCEPT !.from = "cold"] ELSE Free)
  BY DEF DecayPeek
<1>6. QED
  BY <1>0, <1>1, <1>2, <1>3, <1>4, <1>5

LEMMA DecayUnlinkEffect ==
  ASSUME StoresOK, NEW t \in Task, Shape(job[t]), job[t].from \in {"warm", "cold"},
         DecayUnlink(t)
  PROVE  \E r : /\ Becomes(t, r) /\ Goes /\ job[t].pc = "unlink"
                /\ ErasedAt(job[t].from, Keys(job[t].held))
                /\ r.pc = "batch" /\ r.to = TierBelow[job[t].from]
                /\ r.op = job[t].op /\ r.held = job[t].held
                /\ UNCHANGED <<hot, order, insertLock, excused>>
<1> DEFINE r == [job[t] EXCEPT !.pc = "batch", !.to = TierBelow[job[t].from]]
<1>x. PICK X : job[t] \in JobType(X)
  BY DEF Shape
<1>1. ErasedAt(job[t].from, Keys(job[t].held))
  BY UnlinkThere DEF DecayUnlink, LowerTier
<1>2. TierBelow[job[t].from] \in Tier
  BY DEF TierBelow, Tier, LowerTier
<1>3. /\ r \in JobType(X) /\ r.pc = "batch" /\ r.to = TierBelow[job[t].from]
      /\ r.op = job[t].op /\ r.held = job[t].held
  BY <1>x, <1>2 DEF JobType, PC
<1>4. job' = [job EXCEPT ![t] = r]
  BY DEF DecayUnlink, Go
<1> HIDE DEF r
<1>5. QED
  BY <1>1, <1>3, <1>4 DEF DecayUnlink, Becomes, Shape, Goes

LEMMA DecayBatchEffect ==
  ASSUME StoresOK, NEW t \in Task, Shape(job[t]), job[t].to \in LowerTier, DecayBatch(t)
  PROVE  \E r, S :
            /\ Becomes(t, r) /\ Goes /\ job[t].pc = "batch"
            /\ WrittenAt(job[t].to, Only(job[t].held, S))
            /\ \/ /\ r.pc = "batch" /\ r.op = job[t].op /\ r.to = job[t].to
                  /\ r.held = Only(job[t].held, Cap \ S)
               \/ /\ job[t].to = "ice" /\ IsFree(r)
                  /\ Keys(Only(job[t].held, Cap \ S)) = {}
               \/ /\ job[t].to # "ice" /\ r.pc = "peek" /\ r.op = job[t].op
                  /\ r.from = job[t].to /\ r.held = Only(job[t].held, Cap \ S)
                  /\ Keys(r.held) = {}
            /\ UNCHANGED <<hot, order, insertLock, excused>>
<1> DEFINE j == job[t]
<1>x. PICK X : job[t] \in JobType(X)
  BY DEF Shape
<1>1. PICK S :
        /\ lower' = [lower EXCEPT ![j.to] = Over(@, Only(j.held, S))]
        /\ LET k == [j EXCEPT !.held = Only(j.held, Cap \ S)]
           IN Go(t, IF Keys(k.held) # {} THEN k
                    ELSE IF j.to = "ice" THEN Free
                    ELSE [k EXCEPT !.pc = "peek", !.from = j.to])
  BY DEF DecayBatch
<1> DEFINE h == Only(j.held, Cap \ S)
           k == [j EXCEPT !.held = h]
<1>2. h \in Entries /\ Only(j.held, S) \in Entries
  BY ShapeFields, OnlyThere
<1>3. WrittenAt(j.to, Only(j.held, S))
  BY <1>1, <1>2, WriteThere
<1>4. Go(t, IF Keys(k.held) # {} THEN k
            ELSE IF j.to = "ice" THEN Free ELSE [k EXCEPT !.pc = "peek", !.from = j.to])
  BY <1>1
<1> HIDE DEF h
<1>5. /\ k \in JobType(X) /\ k.pc = j.pc /\ k.op = j.op /\ k.to = j.to /\ k.held = h
  BY <1>x, <1>2 DEF JobType
<1> HIDE DEF k
<1>6. CASE Keys(h) # {}
  <2>1. job' = [job EXCEPT ![t] = k]
    BY <1>4, <1>5, <1>6 DEF Go
  <2>2. QED
    BY <1>3, <1>5, <2>1 DEF DecayBatch, Becomes, Shape, Goes, h
<1>7. CASE Keys(h) = {} /\ j.to = "ice"
  <2>1. job' = [job EXCEPT ![t] = Free]
    BY <1>4, <1>5, <1>7 DEF Go
  <2>2. QED
    BY <1>3, <1>7, <2>1, FreeShape DEF DecayBatch, Becomes, Goes, h
<1>8. CASE Keys(h) = {} /\ j.to # "ice"
  <2> DEFINE r == [k EXCEPT !.pc = "peek", !.from = j.to]
  <2>1. job' = [job EXCEPT ![t] = r]
    BY <1>4, <1>5, <1>8 DEF Go
  <2>2. r \in JobType(X) /\ r.pc = "peek" /\ r.op = j.op /\ r.from = j.to /\ r.held = h
    BY <1>5 DEF JobType, PC, Tier
  <2> HIDE DEF r
  <2>3. QED
    BY <1>3, <1>8, <2>1, <2>2 DEF DecayBatch, Becomes, Shape, Goes, h
<1>9. QED
  BY <1>6, <1>7, <1>8

LEMMA LsctWriteEffect ==
  ASSUME StoresOK, NEW t \in Task, Shape(job[t]), job[t].to \in LowerTier, LsctWrite(t)
  PROVE  \E r : /\ Becomes(t, r) /\ job[t].pc = "write" /\ calm' = FALSE
                /\ WrittenAt(job[t].to, job[t].held)
                /\ \/ r.pc = "remove" /\ job[t].from = "hot"
                   \/ r.pc = "erase" /\ job[t].from # "hot"
                /\ Same(r, job[t]) /\ r.todo = {r.id}
                /\ UNCHANGED <<hot, order, insertLock, ops, errors, latest, excused>>
<1> DEFINE p == IF job[t].from = "hot" THEN "remove" ELSE "erase"
           r == [job[t] EXCEPT !.held = Nothing, !.todo = {job[t].id}, !.pc = p]
<1>x. PICK X : job[t] \in JobType(X)
  BY DEF Shape
<1>1. WrittenAt(job[t].to, job[t].held)
  BY ShapeFields, WriteThere DEF LsctWrite
<1>2. r \in JobType(X) /\ r.pc = p /\ Same(r, job[t]) /\ r.todo = {job[t].id}
  BY <1>x, NothingThere, ShapeFields DEF JobType, PC, Same
<1>3. job' = [job EXCEPT ![t] = r]
  BY DEF LsctWrite, Go
<1> HIDE DEF r
<1>4. QED
  BY <1>1, <1>2, <1>3 DEF LsctWrite, Becomes, Shape, Same

LEMMA LsctEraseEffect ==
  ASSUME StoresOK, NEW t \in Task, Shape(job[t]), job[t].from \in LowerTier, LsctErase(t)
  PROVE  \E r : /\ Becomes(t, r) /\ job[t].pc = "erase" /\ calm' = FALSE /\ IsFree(r)
                /\ ErasedAt(job[t].from, {job[t].id}) /\ Excuse(t)
                /\ UNCHANGED <<hot, order, insertLock, ops, errors, latest>>
<1>1. ErasedAt(job[t].from, {job[t].id})
  BY ShapeFields, EraseThere DEF LsctErase
<1>2. QED
  BY <1>1, FreeShape DEF LsctErase, Go, Becomes

-----------------------------------------------------------------------------
(* Types, and what each task carries.                                      *)

LEMMA BecomesThere ==
  ASSUME JobsShaped, NEW t \in Task, NEW r, Becomes(t, r)
  PROVE  JobsShaped' /\ job'[t] = r /\ \A u \in Task \ {t} : job'[u] = job[u]
<1>1. job'[t] = r /\ \A u \in Task \ {t} : job'[u] = job[u]
  BY DEF Becomes, JobsShaped
<1>2. job' = [u \in Task |-> job'[u]] /\ DOMAIN job' = Task
  BY DEF Becomes, JobsShaped
<1>3. \A u \in Task : Shape(job'[u])
  BY <1>1 DEF Becomes, JobsShaped
<1>4. QED
  BY <1>1, <1>2, <1>3 DEF JobsShaped

LEMMA JobsStep ==
  ASSUME TierInv, StoresOK', NEW t \in Task, NEW r, Becomes(t, r),
         excused \subseteq excused', CarryOK(r), RemovalOK(r, excused')
  PROVE  TierInv'
<1>1. JobsShaped' /\ job'[t] = r /\ \A u \in Task \ {t} : job'[u] = job[u]
  BY BecomesThere DEF TierInv
<1>2. \A u \in Task : CarryOK(job'[u])
  BY <1>1 DEF TierInv, JobsOK
<1>3. \A u \in Task : RemovalOK(job'[u], excused')
  <2> SUFFICES ASSUME NEW u \in Task, u # t PROVE RemovalOK(job'[u], excused')
    BY <1>1
  <2>1. RemovalOK(job[u], excused)
    BY DEF TierInv, JobsOK
  <2>2. RemovalOK(job[u], excused')
    BY <2>1, <1>1 DEF RemovalOK
  <2>3. QED
    BY <2>2, <1>1
<1>4. QED
  BY <1>1, <1>2, <1>3 DEF TierInv, JobsOK

LEMMA FreeOK ==
  ASSUME NEW r, IsFree(r), NEW E
  PROVE  CarryOK(r) /\ RemovalOK(r, E)
  BY DEF IsFree, CarryOK, RemovalOK, Removing, Storing

LEMMA ExcuseThere ==
  ASSUME TierInv, NEW t \in Task, Excuse(t)
  PROVE  excused \subseteq excused' /\ excused' \subseteq Cap
<1>1. job[t].id \in Cap
  BY ShapeFields DEF TierInv, JobsShaped
<1>2. QED
  BY <1>1 DEF Excuse, TierInv, StoresOK

\* The invariant at the task that takes the step.
LEMMA AtTask ==
  ASSUME TierInv, NEW t \in Task
  PROVE  Shape(job[t]) /\ CarryOK(job[t]) /\ RemovalOK(job[t], excused) /\ StoresOK
  BY DEF TierInv, JobsShaped, JobsOK

LEMMA BeginStep ==
  ASSUME TierInv, NEW t \in Task, NEW c \in Cap,
         Insert(t, c) \/ GetHot(t, c) \/ GetMiss(t, c) \/ Delete(t, c)
  PROVE  TierInv'
<1> USE DEF CarryOK, RemovalOK, Removing, Storing
<1>s. StoresOK
  BY DEF TierInv
<1>b. ASSUME BeginsOp(t), order' \subseteq Cap, latest' \in Entries, excused' \subseteq Cap
      PROVE  StoresOK'
  BY <1>b, <1>s, TieredAssumption DEF StoresOK, BeginsOp
<1>1. CASE Insert(t, c)
  <2>1. PICK r : /\ Becomes(t, r) /\ BeginsOp(t)
                 /\ r.pc = "hot" /\ r.op = "insert" /\ r.id = c /\ r.vic = c
                 /\ r.held[c] = ops + 1 /\ Keys(r.held) = {c}
                 /\ latest' = [latest EXCEPT ![c] = ops + 1]
                 /\ UNCHANGED <<order, excused>>
    BY <1>1, <1>s, InsertEffect
  <2>2. ops + 1 \in 0 .. MaxOps /\ ops + 1 # 0
    BY <2>1, <1>s, TieredAssumption DEF StoresOK, BeginsOp
  <2>3. StoresOK'
    <3>1. latest' \in Entries
      BY <2>1, <2>2, <1>s DEF StoresOK, Entries
    <3>2. QED
      BY <2>1, <3>1, <1>b, <1>s DEF StoresOK
  <2>4. CarryOK(r) /\ RemovalOK(r, excused')
    BY <2>1, <2>2
  <2>5. QED
    BY <2>1, <2>3, <2>4, JobsStep
<1>2. CASE GetHot(t, c)
  <2>1. PICK r : /\ Becomes(t, r) /\ BeginsOp(t) /\ IsFree(r)
                 /\ order' = order \cup {c} /\ UNCHANGED <<latest, excused>>
    BY <1>2, GetHotEffect
  <2>2. StoresOK'
    BY <2>1, <1>b, <1>s DEF StoresOK
  <2>3. QED
    BY <2>1, <2>2, JobsStep, FreeOK
<1>3. CASE GetMiss(t, c)
  <2>1. PICK r : /\ Becomes(t, r) /\ BeginsOp(t) /\ hot[c] = 0
                 /\ r.pc = "look" /\ r.op = "get" /\ r.id = c /\ r.from = "warm"
                 /\ r.held = Nothing
                 /\ UNCHANGED <<order, latest, excused>>
    BY <1>3, GetMissEffect
  <2>2. StoresOK'
    BY <2>1, <1>b, <1>s DEF StoresOK
  <2>3. CarryOK(r) /\ RemovalOK(r, excused')
    BY <2>1, NothingThere DEF LowerTier
  <2>4. QED
    BY <2>1, <2>2, <2>3, JobsStep
<1>4. CASE Delete(t, c)
  <2>1. PICK r : /\ Becomes(t, r) /\ BeginsOp(t)
                 /\ r.pc = "remove" /\ r.op = "delete" /\ r.from = "warm" /\ r.todo = {c}
                 /\ latest' = [latest EXCEPT ![c] = 0]
                 /\ excused' = excused \cup {c} /\ UNCHANGED order
    BY <1>4, DeleteEffect
  <2>2. StoresOK'
    <3>1. latest' \in Entries
      BY <2>1, <1>s, TieredAssumption DEF StoresOK, Entries
    <3>2. QED
      BY <2>1, <3>1, <1>b, <1>s DEF StoresOK
  <2>3. CarryOK(r) /\ RemovalOK(r, excused')
    BY <2>1
  <2>4. QED
    BY <2>1, <2>2, <2>3, JobsStep
<1>5. QED
  BY <1>1, <1>2, <1>3, <1>4

LEMMA SnapshotStep ==
  ASSUME TierInv, NEW t \in Task, DecaySnapshot(t)
  PROVE  TierInv'
<1>1. PICK r : /\ Becomes(t, r) /\ BeginsOp(t)
               /\ r.pc = "meta" /\ r.op = "decay" /\ r.from = "warm" /\ r.held = Nothing
               /\ UNCHANGED <<order, latest, excused>>
  BY SnapshotEffect DEF TierInv
<1>2. StoresOK'
  BY <1>1, TieredAssumption DEF TierInv, StoresOK, BeginsOp
<1>3. CarryOK(r) /\ RemovalOK(r, excused')
  BY <1>1 DEF CarryOK, RemovalOK, Removing, Storing
<1>4. QED
  BY <1>1, <1>2, <1>3, JobsStep

LEMMA LsctStartStep ==
  ASSUME TierInv, NEW t \in Task, NEW c \in Cap, NEW from \in Tier, NEW to \in Tier,
         LsctStart(t, c, from, to)
  PROVE  TierInv'
<1>1. PICK r : /\ Becomes(t, r) /\ BeginsOp(t)
               /\ r.pc = (IF to = "hot" THEN "hot" ELSE "write") /\ r.op = "lsct"
               /\ r.id = c /\ r.from = from /\ r.to = to /\ from # to
               /\ r.held[c] # 0 /\ Keys(r.held) = {c}
               /\ UNCHANGED <<order, latest, excused>>
  BY LsctStartEffect DEF TierInv
<1>2. StoresOK'
  BY <1>1, TieredAssumption DEF TierInv, StoresOK, BeginsOp
<1>3. CarryOK(r) /\ RemovalOK(r, excused')
  BY <1>1 DEF CarryOK, RemovalOK, Removing, Storing, Tier, LowerTier
<1>4. QED
  BY <1>1, <1>2, <1>3, JobsStep

LEMMA HotTypeStep ==
  ASSUME TierInv, NEW t \in Task, HotStep(t)
  PROVE  TierInv'
<1>a. Shape(job[t]) /\ CarryOK(job[t]) /\ RemovalOK(job[t], excused) /\ StoresOK
  BY AtTask
<1>f. /\ job[t].id \in Cap /\ job[t].vic \in Cap /\ job[t].held \in Entries
  BY <1>a, ShapeFields
<1>b. ASSUME Goes, hot' \in Entries, order' \subseteq Cap, lower' \in [LowerTier -> Entries],
             excused' = excused
      PROVE  StoresOK'
  BY <1>a, <1>b DEF StoresOK, Goes
<1>1. CASE HotLock(t)
  <2>1. PICK r : /\ Becomes(t, r) /\ Goes /\ job[t].pc = "hot" /\ Carries(r, job[t])
                 /\ r.vic = job[t].id /\ r.pc \in {"evict", "order"}
                 /\ UNCHANGED <<hot, order, lower, excused>>
    BY <1>1, <1>a, HotLockEffect
  <2>2. StoresOK'
    BY <1>a, <1>b, <2>1 DEF StoresOK
  <2>3. CarryOK(r) /\ RemovalOK(r, excused')
    BY <1>a, <2>1 DEF CarryOK, RemovalOK, Removing, Storing, Carries
  <2>4. QED
    BY <2>1, <2>2, <2>3, JobsStep
<1>2. CASE HotEvict(t)
  <2>1. PICK r : /\ Becomes(t, r) /\ Goes /\ job[t].pc = "evict" /\ Carries(r, job[t])
                 /\ \/ r.pc = "order" /\ r.vic = job[t].vic
                    \/ r.pc = "evicted"
                 /\ order' \subseteq order
                 /\ UNCHANGED <<hot, lower, excused>>
    BY <1>2, <1>a, HotEvictEffect DEF StoresOK
  <2>2. StoresOK'
    BY <1>a, <1>b, <2>1 DEF StoresOK
  <2>3. CarryOK(r) /\ RemovalOK(r, excused')
    BY <1>a, <2>1 DEF CarryOK, RemovalOK, Removing, Storing, Carries
  <2>4. QED
    BY <2>1, <2>2, <2>3, JobsStep
<1>3. CASE HotEvicted(t)
  <2>1. PICK r : /\ Becomes(t, r) /\ Goes /\ job[t].pc = "evicted" /\ r.pc = "order"
                 /\ r.op = job[t].op /\ r.id = job[t].id /\ r.from = job[t].from
                 /\ r.to = job[t].to
                 /\ hot' \in Entries
                 /\ IF hot[job[t].vic] = 0
                    THEN r.vic = r.id /\ r.held = job[t].held
                    ELSE /\ r.vic = job[t].vic
                         /\ \A c \in Cap : r.held[c] = IF c = r.vic THEN hot[c] ELSE job[t].held[c]
                 /\ UNCHANGED <<order, lower, excused>>
    BY <1>3, <1>a, HotEvictedEffect
  <2>2. StoresOK'
    BY <1>a, <1>b, <2>1 DEF StoresOK
  <2>3. r.held[r.id] # 0 /\ Keys(r.held) \subseteq {r.id, r.vic}
    BY <1>a, <1>f, <2>1 DEF CarryOK, Keys
  <2>4. CarryOK(r) /\ RemovalOK(r, excused')
    BY <1>a, <2>1, <2>3 DEF CarryOK, RemovalOK, Removing, Storing
  <2>5. QED
    BY <2>1, <2>2, <2>4, JobsStep
<1>4. CASE HotOrder(t)
  <2>1. PICK r : /\ Becomes(t, r) /\ Goes /\ job[t].pc = "order" /\ Carries(r, job[t])
                 /\ r.pc = "put" /\ r.vic = job[t].vic
                 /\ order' = order \cup {r.id}
                 /\ UNCHANGED <<hot, lower, excused>>
    BY <1>4, <1>a, HotOrderEffect
  <2>2. StoresOK'
    BY <1>a, <1>b, <1>f, <2>1 DEF StoresOK, Carries
  <2>3. CarryOK(r) /\ RemovalOK(r, excused')
    BY <1>a, <2>1 DEF CarryOK, RemovalOK, Removing, Storing, Carries
  <2>4. QED
    BY <2>1, <2>2, <2>3, JobsStep
<1>5. CASE HotPut(t)
  <2>1. PICK r : /\ Becomes(t, r) /\ Goes /\ job[t].pc = "put"
                 /\ HotSet(job[t].id, job[t].held[job[t].id])
                 /\ \/ /\ job[t].vic = job[t].id /\ job[t].op = "lsct"
                       /\ r.pc = "erase" /\ Same(r, job[t])
                    \/ job[t].vic = job[t].id /\ job[t].op # "lsct" /\ IsFree(r)
                    \/ /\ job[t].vic # job[t].id
                       /\ r.pc = "spill" /\ Same(r, job[t]) /\ r.vic = job[t].vic
                       /\ \A d \in Cap : r.held[d] = IF d = r.id THEN 0 ELSE job[t].held[d]
                 /\ UNCHANGED <<order, lower, excused>>
    BY <1>5, <1>a, HotPutEffect
  <2>2. StoresOK'
    BY <1>a, <1>b, <2>1 DEF StoresOK, HotSet
  <2>3. CASE r.pc = "erase" /\ Same(r, job[t]) /\ job[t].op = "lsct"
    <3>1. CarryOK(r) /\ RemovalOK(r, excused')
      BY <1>a, <2>1, <2>3 DEF CarryOK, RemovalOK, Removing, Storing, Same
    <3>2. QED
      BY <2>1, <2>2, <3>1, JobsStep
  <2>4. CASE IsFree(r)
    BY <2>1, <2>2, <2>4, JobsStep, FreeOK
  <2>5. CASE /\ r.pc = "spill" /\ Same(r, job[t]) /\ r.vic = job[t].vic
             /\ \A d \in Cap : r.held[d] = IF d = r.id THEN 0 ELSE job[t].held[d]
    <3>1. Keys(r.held) \subseteq {r.vic}
      BY <1>a, <2>1, <2>5 DEF CarryOK, Keys, Same
    <3>2. CarryOK(r) /\ RemovalOK(r, excused')
      BY <1>a, <2>1, <2>5, <3>1 DEF CarryOK, RemovalOK, Removing, Storing, Same
    <3>3. QED
      BY <2>1, <2>2, <3>2, JobsStep
  <2>6. QED
    BY <2>1, <2>3, <2>4, <2>5
<1>6. CASE Spill(t)
  <2>1. PICK r : /\ Becomes(t, r) /\ Goes /\ job[t].pc = "spill"
                 /\ WrittenAt("warm", job[t].held)
                 /\ \/ job[t].op = "lsct" /\ r.pc = "erase" /\ Same(r, job[t])
                    \/ job[t].op # "lsct" /\ IsFree(r)
                 /\ UNCHANGED <<hot, order, excused>>
    BY <1>6, <1>a, SpillEffect
  <2>2. StoresOK'
    BY <1>a, <1>b, <2>1 DEF StoresOK, WrittenAt
  <2>3. CASE r.pc = "erase" /\ Same(r, job[t]) /\ job[t].op = "lsct"
    <3>1. CarryOK(r) /\ RemovalOK(r, excused')
      BY <1>a, <2>1, <2>3 DEF CarryOK, RemovalOK, Removing, Storing, Same
    <3>2. QED
      BY <2>1, <2>2, <3>1, JobsStep
  <2>4. QED
    BY <2>1, <2>2, <2>3, JobsStep, FreeOK
<1>7. QED
  BY <1>1, <1>2, <1>3, <1>4, <1>5, <1>6 DEF HotStep

LEMMA MoveTypeStep ==
  ASSUME TierInv, NEW t \in Task,
         Look(t) \/ TakeCopy(t) \/ RemoveOrder(t) \/ RemoveEntry(t) \/ Purge(t)
  PROVE  TierInv'
<1>a. Shape(job[t]) /\ CarryOK(job[t]) /\ RemovalOK(job[t], excused) /\ StoresOK
  BY AtTask
<1>f. /\ job[t].id \in Cap /\ job[t].held \in Entries /\ job[t].todo \subseteq Cap
  BY <1>a, ShapeFields
<1>b. ASSUME Goes, hot' \in Entries, order' \subseteq Cap, lower' \in [LowerTier -> Entries],
             excused' \subseteq Cap
      PROVE  StoresOK'
  BY <1>a, <1>b DEF StoresOK, Goes
<1>t. \A x \in LowerTier : x # "ice" => TierBelow[x] \in LowerTier
  BY DEF TierBelow, LowerTier
<1>1. CASE Look(t)
  <2>0. job[t].from \in LowerTier
    BY <1>1, <1>a DEF Look, CarryOK
  <2>1. PICK r : /\ Becomes(t, r) /\ Goes /\ job[t].pc = "look"
                 /\ \/ /\ lower[job[t].from][job[t].id] # 0
                       /\ r.pc = "take" /\ Same(r, job[t])
                       /\ \A d \in Cap : r.held[d] = IF d = r.id THEN lower[r.from][d]
                                                     ELSE job[t].held[d]
                    \/ IsFree(r)
                    \/ /\ job[t].from # "ice" /\ r.pc = "look" /\ r.from = TierBelow[job[t].from]
                       /\ r.op = job[t].op /\ r.id = job[t].id /\ r.held = job[t].held
                 /\ UNCHANGED <<hot, order, lower, excused>>
    BY <1>1, <1>a, <2>0, LookEffect
  <2>2. StoresOK'
    BY <1>a, <1>b, <2>1 DEF StoresOK
  <2>3. CASE /\ lower[job[t].from][job[t].id] # 0
             /\ r.pc = "take" /\ Same(r, job[t])
             /\ \A d \in Cap : r.held[d] = IF d = r.id THEN lower[r.from][d] ELSE job[t].held[d]
    <3>1. r.held[r.id] # 0 /\ Keys(r.held) \subseteq {r.id}
      BY <1>a, <1>f, <2>1, <2>3 DEF CarryOK, Keys, Same
    <3>2. CarryOK(r) /\ RemovalOK(r, excused')
      BY <1>a, <2>1, <2>3, <3>1 DEF CarryOK, RemovalOK, Removing, Storing, Same
    <3>3. QED
      BY <2>1, <2>2, <3>2, JobsStep
  <2>4. CASE IsFree(r)
    BY <2>1, <2>2, <2>4, JobsStep, FreeOK
  <2>5. CASE /\ job[t].from # "ice" /\ r.pc = "look" /\ r.from = TierBelow[job[t].from]
             /\ r.op = job[t].op /\ r.id = job[t].id /\ r.held = job[t].held
    <3>1. CarryOK(r) /\ RemovalOK(r, excused')
      BY <1>a, <1>t, <2>0, <2>1, <2>5 DEF CarryOK, RemovalOK, Removing, Storing
    <3>2. QED
      BY <2>1, <2>2, <3>1, JobsStep
  <2>6. QED
    BY <2>1, <2>3, <2>4, <2>5
<1>2. CASE TakeCopy(t)
  <2>0. job[t].from \in LowerTier
    BY <1>2, <1>a DEF TakeCopy, CarryOK
  <2>1. PICK r : /\ Becomes(t, r) /\ Goes /\ job[t].pc = "take"
                 /\ ErasedAt(job[t].from, {job[t].id})
                 /\ r.pc = "hot" /\ Carries(r, job[t])
                 /\ UNCHANGED <<hot, order, excused>>
    BY <1>2, <1>a, <2>0, TakeCopyEffect
  <2>2. StoresOK'
    BY <1>a, <1>b, <2>1 DEF StoresOK, ErasedAt
  <2>3. CarryOK(r) /\ RemovalOK(r, excused')
    BY <1>a, <2>1 DEF CarryOK, RemovalOK, Removing, Storing, Carries
  <2>4. QED
    BY <2>1, <2>2, <2>3, JobsStep
<1>3. CASE RemoveOrder(t)
  <2>1. PICK r : /\ Becomes(t, r) /\ Goes /\ job[t].pc = "remove"
                 /\ r.pc = "removed" /\ r.id \in job[t].todo /\ r.op = job[t].op
                 /\ r.from = job[t].from /\ r.to = job[t].to /\ r.held = job[t].held
                 /\ r.todo = job[t].todo /\ order' \subseteq order
                 /\ UNCHANGED <<hot, lower, excused>>
    BY <1>3, <1>a, RemoveOrderEffect
  <2>2. StoresOK'
    BY <1>a, <1>b, <2>1 DEF StoresOK
  <2>3. CarryOK(r) /\ RemovalOK(r, excused')
    BY <1>a, <2>1 DEF CarryOK, RemovalOK, Removing, Storing
  <2>4. QED
    BY <2>1, <2>2, <2>3, JobsStep
<1>4. CASE RemoveEntry(t)
  <2>1. PICK r : /\ Becomes(t, r) /\ Goes /\ job[t].pc = "removed" /\ HotSet(job[t].id, 0)
                 /\ \/ /\ r.pc = "remove" /\ Same(r, job[t]) /\ r.held = job[t].held
                       /\ r.todo = job[t].todo \ {job[t].id}
                    \/ /\ r.pc = "purge" /\ Same(r, job[t]) /\ job[t].op = "delete"
                    \/ /\ r.pc = "batch" /\ Same(r, job[t]) /\ job[t].op = "decay"
                    \/ IsFree(r)
                 /\ Excuse(t) /\ UNCHANGED <<order, lower>>
    BY <1>4, <1>a, RemoveEntryEffect
  <2>e. excused \subseteq excused' /\ excused' \subseteq Cap
    BY <2>1, ExcuseThere
  <2>2. StoresOK'
    BY <1>a, <1>b, <2>1, <2>e DEF StoresOK, HotSet
  <2>3. CASE /\ r.pc = "remove" /\ Same(r, job[t]) /\ r.held = job[t].held
             /\ r.todo = job[t].todo \ {job[t].id}
    <3>1. CarryOK(r) /\ RemovalOK(r, excused')
      BY <1>a, <2>1, <2>e, <2>3 DEF CarryOK, RemovalOK, Removing, Storing, Same
    <3>2. QED
      BY <2>1, <2>2, <2>e, <3>1, JobsStep
  <2>4. CASE r.pc = "purge" /\ Same(r, job[t]) /\ job[t].op = "delete"
    <3>1. CarryOK(r) /\ RemovalOK(r, excused')
      BY <1>a, <2>1, <2>e, <2>4 DEF CarryOK, RemovalOK, Removing, Storing, Same, LowerTier
    <3>2. QED
      BY <2>1, <2>2, <2>e, <3>1, JobsStep
  <2>5. CASE r.pc = "batch" /\ Same(r, job[t]) /\ job[t].op = "decay"
    <3>1. CarryOK(r) /\ RemovalOK(r, excused')
      BY <1>a, <2>1, <2>5 DEF CarryOK, RemovalOK, Removing, Storing, Same, LowerTier
    <3>2. QED
      BY <2>1, <2>2, <2>e, <3>1, JobsStep
  <2>6. CASE IsFree(r)
    BY <2>1, <2>2, <2>e, <2>6, JobsStep, FreeOK
  <2>7. QED
    BY <2>1, <2>3, <2>4, <2>5, <2>6
<1>5. CASE Purge(t)
  <2>0. job[t].from \in LowerTier
    BY <1>5, <1>a DEF Purge, CarryOK
  <2>1. PICK r : /\ Becomes(t, r) /\ Goes /\ job[t].pc = "purge"
                 /\ ErasedAt(job[t].from, {job[t].id})
                 /\ \/ IsFree(r)
                    \/ /\ job[t].from # "ice" /\ r.pc = "purge" /\ r.from = TierBelow[job[t].from]
                       /\ r.op = job[t].op /\ r.id = job[t].id
                 /\ UNCHANGED <<hot, order, excused>>
    BY <1>5, <1>a, <2>0, PurgeEffect
  <2>2. StoresOK'
    BY <1>a, <1>b, <2>1 DEF StoresOK, ErasedAt
  <2>3. CASE /\ job[t].from # "ice" /\ r.pc = "purge" /\ r.from = TierBelow[job[t].from]
             /\ r.op = job[t].op /\ r.id = job[t].id
    <3>1. CarryOK(r) /\ RemovalOK(r, excused')
      BY <1>a, <1>t, <2>0, <2>1, <2>3 DEF CarryOK, RemovalOK, Removing, Storing
    <3>2. QED
      BY <2>1, <2>2, <3>1, JobsStep
  <2>4. QED
    BY <2>1, <2>2, <2>3, JobsStep, FreeOK
<1>6. QED
  BY <1>1, <1>2, <1>3, <1>4, <1>5

LEMMA DecayTypeStep ==
  ASSUME TierInv, NEW t \in Task, DecayStep(t)
  PROVE  TierInv'
<1>a. Shape(job[t]) /\ CarryOK(job[t]) /\ RemovalOK(job[t], excused) /\ StoresOK
  BY AtTask
<1>f. /\ job[t].held \in Entries /\ job[t].snap \in Entries
  BY <1>a, ShapeFields
<1>b. ASSUME Goes, hot' = hot, order' = order, lower' \in [LowerTier -> Entries],
             excused' = excused
      PROVE  StoresOK'
  BY <1>a, <1>b DEF StoresOK, Goes
<1>1. CASE DecayMeta(t)
  <2>0. job[t].from \in {"warm", "cold"}
    BY <1>1, <1>a DEF DecayMeta, CarryOK
  <2>1. PICK r : /\ Becomes(t, r) /\ Goes /\ job[t].pc = "meta"
                 /\ \/ r.pc = "meta" /\ r.from = "cold"
                    \/ r.pc = "filter"
                 /\ r.op = job[t].op
                 /\ UNCHANGED <<hot, order, lower, excused>>
    BY <1>1, <1>a, <2>0, DecayMetaEffect
  <2>2. StoresOK'
    BY <1>a, <1>b, <2>1 DEF StoresOK
  <2>3. CarryOK(r) /\ RemovalOK(r, excused')
    BY <1>a, <2>1 DEF CarryOK, RemovalOK, Removing, Storing
  <2>4. QED
    BY <2>1, <2>2, <2>3, JobsStep
<1>2. CASE DecayFilter(t)
  <2>1. PICK r : /\ Becomes(t, r) /\ Goes /\ job[t].pc = "filter"
                 /\ r.op = job[t].op /\ r.from = "warm" /\ r.to = "warm"
                 /\ \/ r.pc = "peek" /\ Keys(r.held) = {}
                    \/ r.pc = "remove" /\ r.todo = Keys(r.held)
                 /\ UNCHANGED <<hot, order, lower, excused>>
    BY <1>2, <1>a, DecayFilterEffect
  <2>2. StoresOK'
    BY <1>a, <1>b, <2>1 DEF StoresOK
  <2>3. CarryOK(r) /\ RemovalOK(r, excused')
    BY <1>a, <2>1 DEF CarryOK, RemovalOK, Removing, Storing
  <2>4. QED
    BY <2>1, <2>2, <2>3, JobsStep
<1>3. CASE DecayPeek(t)
  <2>0. job[t].from \in {"warm", "cold"}
    BY <1>3, <1>a DEF DecayPeek, CarryOK
  <2>1. PICK r : /\ Becomes(t, r) /\ Goes /\ job[t].pc = "peek"
                 /\ \/ r.pc = "peek" /\ Same(r, job[t])
                    \/ r.pc = "unlink" /\ Carries(r, job[t])
                    \/ r.pc = "peek" /\ r.from = "cold" /\ r.op = job[t].op
                    \/ IsFree(r)
                 /\ UNCHANGED <<hot, order, lower, excused>>
    BY <1>3, <1>a, <2>0, DecayPeekEffect
  <2>2. StoresOK'
    BY <1>a, <1>b, <2>1 DEF StoresOK
  <2>3. CarryOK(r) /\ RemovalOK(r, excused')
    <3>1. CASE IsFree(r)
      BY <3>1, FreeOK
    <3>2. CASE ~IsFree(r)
      BY <1>a, <2>0, <2>1, <3>2 DEF CarryOK, RemovalOK, Removing, Storing, Same, Carries
    <3>3. QED
      BY <3>1, <3>2
  <2>4. QED
    BY <2>1, <2>2, <2>3, JobsStep
<1>4. CASE DecayUnlink(t)
  <2>0. job[t].from \in {"warm", "cold"}
    BY <1>4, <1>a DEF DecayUnlink, CarryOK
  <2>1. PICK r : /\ Becomes(t, r) /\ Goes /\ job[t].pc = "unlink"
                 /\ ErasedAt(job[t].from, Keys(job[t].held))
                 /\ r.pc = "batch" /\ r.to = TierBelow[job[t].from]
                 /\ r.op = job[t].op
                 /\ UNCHANGED <<hot, order, excused>>
    BY <1>4, <1>a, <2>0, DecayUnlinkEffect
  <2>2. StoresOK'
    BY <1>a, <1>b, <2>1 DEF StoresOK, ErasedAt
  <2>3. r.to \in LowerTier
    BY <2>0, <2>1 DEF TierBelow, LowerTier
  <2>4. CarryOK(r) /\ RemovalOK(r, excused')
    BY <1>a, <2>1, <2>3 DEF CarryOK, RemovalOK, Removing, Storing
  <2>5. QED
    BY <2>1, <2>2, <2>4, JobsStep
<1>5. CASE DecayBatch(t)
  <2>0. job[t].to \in LowerTier
    BY <1>5, <1>a DEF DecayBatch, CarryOK
  <2>1. PICK r, S :
            /\ Becomes(t, r) /\ Goes /\ job[t].pc = "batch"
            /\ WrittenAt(job[t].to, Only(job[t].held, S))
            /\ \/ r.pc = "batch" /\ r.op = job[t].op /\ r.to = job[t].to
               \/ IsFree(r)
               \/ job[t].to # "ice" /\ r.pc = "peek" /\ r.op = job[t].op /\ r.from = job[t].to
            /\ UNCHANGED <<hot, order, excused>>
    BY <1>5, <1>a, <2>0, DecayBatchEffect
  <2>2. StoresOK'
    BY <1>a, <1>b, <2>1 DEF StoresOK, WrittenAt
  <2>3. CarryOK(r) /\ RemovalOK(r, excused')
    <3>1. CASE IsFree(r)
      BY <3>1, FreeOK
    <3>2. CASE ~IsFree(r)
      BY <1>a, <2>0, <2>1, <3>2 DEF CarryOK, RemovalOK, Removing, Storing, LowerTier
    <3>3. QED
      BY <3>1, <3>2
  <2>4. QED
    BY <2>1, <2>2, <2>3, JobsStep
<1>6. QED
  BY <1>1, <1>2, <1>3, <1>4, <1>5 DEF DecayStep

LEMMA LsctTypeStep ==
  ASSUME TierInv, NEW t \in Task, LsctWrite(t) \/ LsctErase(t) \/ StorageError(t)
  PROVE  TierInv'
<1>a. Shape(job[t]) /\ CarryOK(job[t]) /\ RemovalOK(job[t], excused) /\ StoresOK
  BY AtTask
<1>f. job[t].id \in Cap /\ job[t].from \in Tier
  BY <1>a, ShapeFields
<1>1. CASE LsctWrite(t)
  <2>0. job[t].to \in LowerTier
    BY <1>1, <1>a DEF LsctWrite, CarryOK
  <2>1. PICK r : /\ Becomes(t, r) /\ job[t].pc = "write"
                 /\ WrittenAt(job[t].to, job[t].held)
                 /\ \/ r.pc = "remove" /\ job[t].from = "hot"
                    \/ r.pc = "erase" /\ job[t].from # "hot"
                 /\ Same(r, job[t]) /\ r.todo = {r.id}
                 /\ UNCHANGED <<hot, order, ops, errors, latest, excused>>
    BY <1>1, <1>a, <2>0, LsctWriteEffect
  <2>2. StoresOK'
    BY <1>a, <2>1 DEF StoresOK, WrittenAt
  <2>3. CarryOK(r) /\ RemovalOK(r, excused')
    BY <1>a, <1>f, <2>0, <2>1 DEF CarryOK, RemovalOK, Removing, Storing, Same, Tier, LowerTier
  <2>4. QED
    BY <2>1, <2>2, <2>3, JobsStep
<1>2. CASE LsctErase(t)
  <2>0. job[t].from \in LowerTier
    BY <1>2, <1>a DEF LsctErase, CarryOK
  <2>1. PICK r : /\ Becomes(t, r) /\ IsFree(r)
                 /\ ErasedAt(job[t].from, {job[t].id}) /\ Excuse(t)
                 /\ UNCHANGED <<hot, order, ops, errors, latest>>
    BY <1>2, <1>a, <2>0, LsctEraseEffect
  <2>e. excused \subseteq excused' /\ excused' \subseteq Cap
    BY <2>1, ExcuseThere
  <2>2. StoresOK'
    BY <1>a, <2>1, <2>e DEF StoresOK, ErasedAt
  <2>3. QED
    BY <2>1, <2>2, <2>e, JobsStep, FreeOK
<1>3. CASE StorageError(t)
  <2>1. Becomes(t, Free) /\ excused \subseteq excused'
    BY <1>3, FreeShape DEF StorageError, Go, Becomes
  <2>2. StoresOK'
    BY <1>3, <1>a, TieredAssumption DEF StorageError, StoresOK, Keys
  <2>3. QED
    BY <2>1, <2>2, JobsStep, FreeOK, FreeShape
<1>4. QED
  BY <1>1, <1>2, <1>3

LEMMA TierStarts == TierInit => TierInv /\ CalmType
<1> SUFFICES ASSUME TierInit PROVE TierInv /\ CalmType
  OBVIOUS
<1>1. StoresOK /\ CalmType
  BY NothingThere, TieredAssumption DEF TierInit, StoresOK, CalmType
<1>2. \A t \in Task : job[t] = Free
  BY DEF TierInit
<1>3. JobsShaped
  BY <1>2, FreeShape DEF TierInit, JobsShaped
<1>4. JobsOK
  BY <1>2, FreeShape, FreeOK DEF JobsOK
<1>5. QED
  BY <1>1, <1>3, <1>4 DEF TierInv

LEMMA TierTypeStep ==
  ASSUME TierInv, [TierNext]_tierVars
  PROVE  TierInv'
<1>1. CASE UNCHANGED tierVars
  <2>1. StoresOK'
    BY <1>1 DEF TierInv, StoresOK, tierVars
  <2>2. JobsShaped' /\ JobsOK'
    BY <1>1 DEF TierInv, JobsShaped, JobsOK, tierVars
  <2>3. QED
    BY <2>1, <2>2 DEF TierInv
<1>2. CASE TierNext
  <2>1. PICK t \in Task :
          \/ \E c \in Cap : Insert(t, c) \/ GetHot(t, c) \/ GetMiss(t, c) \/ Delete(t, c)
          \/ DecaySnapshot(t)
          \/ \E c \in Cap, from, to \in Tier : LsctStart(t, c, from, to)
          \/ HotStep(t)
          \/ Look(t) \/ TakeCopy(t) \/ RemoveOrder(t) \/ RemoveEntry(t) \/ Purge(t)
          \/ DecayStep(t)
          \/ LsctWrite(t) \/ LsctErase(t) \/ StorageError(t)
    BY <1>2, Zenon DEF TierNext, Tier
  <2>2. QED
    BY <2>1, BeginStep, SnapshotStep, LsctStartStep, HotTypeStep, MoveTypeStep, DecayTypeStep,
       LsctTypeStep
<1>3. QED
  BY <1>1, <1>2

\* The types of the tiers and of the jobs, and what every task carries where.
THEOREM TierInvProved == TierSpec => []TierInv
<1>1. TierInit => TierInv
  BY TierStarts
<1>2. TierInv /\ [TierNext]_tierVars => TierInv'
  BY TierTypeStep
<1>3. QED
  BY <1>1, <1>2, PTL DEF TierSpec

-----------------------------------------------------------------------------
(* No entry is lost.                                                       *)

\* The task that takes the step keeps or hands on what was stored or carried.
Keeps(t, r) ==
  \A c \in Cap \ excused' : Stored(c) \/ c \in Solid(job[t]) => Stored(c)' \/ c \in Solid(r)

LEMMA SafeStep ==
  ASSUME SafeInv, JobsShaped, NEW t \in Task, NEW r, Becomes(t, r), excused \subseteq excused',
         \A c \in Cap \ excused' : latest'[c] # 0 => latest[c] # 0 \/ c \in Solid(r),
         Keeps(t, r)
  PROVE  SafeInv'
<1>1. job'[t] = r /\ \A u \in Task \ {t} : job'[u] = job[u]
  BY BecomesThere
<1> SUFFICES ASSUME NEW c \in Cap \ excused', latest'[c] # 0
             PROVE  Stored(c)' \/ \E u \in Task : c \in Solid(job'[u])
  BY Zenon DEF SafeInv, Solid
<1>2. CASE c \in Solid(r)
  BY <1>1, <1>2
<1>3. CASE c \notin Solid(r)
  <2>1. Stored(c) \/ \E u \in Task : c \in Solid(job[u])
    BY <1>3 DEF SafeInv
  <2>2. CASE Stored(c) \/ c \in Solid(job[t])
    BY <2>2, <1>1 DEF Keeps
  <2>3. ASSUME NEW u \in Task, u # t, c \in Solid(job[u])
        PROVE  c \in Solid(job'[u])
    BY <2>3, <1>1
  <2>4. QED
    BY <2>1, <2>2, <2>3
<1>4. QED
  BY <1>2, <1>3

LEMMA SafeBegin ==
  ASSUME TierInv, SafeInv, NEW t \in Task, NEW c \in Cap,
         Insert(t, c) \/ GetHot(t, c) \/ GetMiss(t, c) \/ Delete(t, c)
  PROVE  SafeInv'
<1>a. StoresOK /\ JobsShaped
  BY DEF TierInv
<1>k. ASSUME NEW r, BeginsOp(t) PROVE Keeps(t, r)
  BY <1>k DEF BeginsOp, Keeps, Stored, Solid, Storing, Removing
<1>1. CASE Insert(t, c)
  <2>1. PICK r : /\ Becomes(t, r) /\ BeginsOp(t)
                 /\ r.pc = "hot" /\ Keys(r.held) = {c}
                 /\ latest' = [latest EXCEPT ![c] = ops + 1]
                 /\ UNCHANGED <<order, excused>>
    BY <1>1, <1>a, InsertEffect
  <2>2. c \in Solid(r)
    BY <2>1 DEF Solid, Storing
  <2>3. \A d \in Cap \ excused' : latest'[d] # 0 => latest[d] # 0 \/ d \in Solid(r)
    BY <2>1, <2>2, <1>a DEF StoresOK, Entries
  <2>4. QED
    BY <2>1, <2>3, <1>a, <1>k, SafeStep
<1>2. CASE GetHot(t, c)
  <2>1. PICK r : /\ Becomes(t, r) /\ BeginsOp(t) /\ UNCHANGED <<latest, excused>>
    BY <1>2, GetHotEffect
  <2>2. QED
    BY <2>1, <1>a, <1>k, SafeStep
<1>3. CASE GetMiss(t, c)
  <2>1. PICK r : /\ Becomes(t, r) /\ BeginsOp(t) /\ UNCHANGED <<latest, excused>>
    BY <1>3, GetMissEffect
  <2>2. QED
    BY <2>1, <1>a, <1>k, SafeStep
<1>4. CASE Delete(t, c)
  <2>1. PICK r : /\ Becomes(t, r) /\ BeginsOp(t)
                 /\ latest' = [latest EXCEPT ![c] = 0] /\ excused' = excused \cup {c}
    BY <1>4, DeleteEffect
  <2>2. \A d \in Cap \ excused' : latest'[d] # 0 => latest[d] # 0
    BY <2>1, <1>a DEF StoresOK, Entries
  <2>3. QED
    BY <2>1, <2>2, <1>a, <1>k, SafeStep
<1>5. QED
  BY <1>1, <1>2, <1>3, <1>4

LEMMA SafeBeginOther ==
  ASSUME TierInv, SafeInv, NEW t \in Task,
         DecaySnapshot(t) \/ \E c \in Cap, from, to \in Tier : LsctStart(t, c, from, to)
  PROVE  SafeInv'
<1>a. StoresOK /\ JobsShaped
  BY DEF TierInv
<1>1. PICK r : Becomes(t, r) /\ BeginsOp(t) /\ UNCHANGED <<latest, excused>>
  BY <1>a, SnapshotEffect, LsctStartEffect
<1>2. Keeps(t, r)
  BY <1>1 DEF BeginsOp, Keeps, Stored, Solid, Storing, Removing
<1>3. QED
  BY <1>1, <1>2, <1>a, SafeStep

LEMMA SafeHot ==
  ASSUME TierInv, SafeInv, NEW t \in Task, HotStep(t)
  PROVE  SafeInv'
<1>a. /\ Shape(job[t]) /\ CarryOK(job[t]) /\ RemovalOK(job[t], excused) /\ StoresOK
      /\ JobsShaped
  BY AtTask DEF TierInv
<1>f. /\ job[t].id \in Cap /\ job[t].vic \in Cap
  BY <1>a, ShapeFields
<1>s. ASSUME NEW r, Becomes(t, r), Goes, excused' = excused, Keeps(t, r)
      PROVE  SafeInv'
  BY <1>a, <1>s, SafeStep DEF Goes
<1>1. CASE HotLock(t)
  <2>1. PICK r : /\ Becomes(t, r) /\ Goes /\ job[t].pc = "hot" /\ Carries(r, job[t])
                 /\ r.pc \in {"evict", "order"}
                 /\ UNCHANGED <<hot, lower, excused>>
    BY <1>1, <1>a, HotLockEffect
  <2>2. Keeps(t, r)
    BY <2>1 DEF Keeps, Stored, Solid, Storing, Removing, Carries
  <2>3. QED
    BY <2>1, <2>2, <1>s
<1>2. CASE HotEvict(t)
  <2>1. PICK r : /\ Becomes(t, r) /\ Goes /\ job[t].pc = "evict" /\ Carries(r, job[t])
                 /\ r.pc \in {"evicted", "order"}
                 /\ UNCHANGED <<hot, lower, excused>>
    BY <1>2, <1>a, HotEvictEffect DEF StoresOK
  <2>2. Keeps(t, r)
    BY <2>1 DEF Keeps, Stored, Solid, Storing, Removing, Carries
  <2>3. QED
    BY <2>1, <2>2, <1>s
<1>3. CASE HotEvicted(t)
  <2>1. PICK r : /\ Becomes(t, r) /\ Goes /\ job[t].pc = "evicted" /\ r.pc = "order"
                 /\ \A c \in Cap : hot'[c] = IF c = job[t].vic THEN 0 ELSE hot[c]
                 /\ IF hot[job[t].vic] = 0
                    THEN r.vic = r.id /\ r.held = job[t].held
                    ELSE /\ r.vic = job[t].vic
                         /\ \A c \in Cap : r.held[c] = IF c = r.vic THEN hot[c] ELSE job[t].held[c]
                 /\ UNCHANGED <<lower, excused>>
    BY <1>3, <1>a, HotEvictedEffect
  <2>2. Keeps(t, r)
    BY <2>1, <1>f DEF Keeps, Stored, Solid, Storing, Removing, Keys
  <2>3. QED
    BY <2>1, <2>2, <1>s
<1>4. CASE HotOrder(t)
  <2>1. PICK r : /\ Becomes(t, r) /\ Goes /\ job[t].pc = "order" /\ Carries(r, job[t])
                 /\ r.pc = "put"
                 /\ UNCHANGED <<hot, lower, excused>>
    BY <1>4, <1>a, HotOrderEffect
  <2>2. Keeps(t, r)
    BY <2>1 DEF Keeps, Stored, Solid, Storing, Removing, Carries
  <2>3. QED
    BY <2>1, <2>2, <1>s
<1>5. CASE HotPut(t)
  <2>1. PICK r : /\ Becomes(t, r) /\ Goes /\ job[t].pc = "put"
                 /\ HotSet(job[t].id, job[t].held[job[t].id])
                 /\ \/ job[t].vic = job[t].id
                    \/ /\ r.pc = "spill" /\ r.id = job[t].id
                       /\ \A d \in Cap : r.held[d] = IF d = r.id THEN 0 ELSE job[t].held[d]
                 /\ UNCHANGED <<lower, excused>>
    BY <1>5, <1>a, HotPutEffect DEF Same
  <2>2. hot'[job[t].id] # 0
    BY <1>a, <1>f, <2>1 DEF HotSet, CarryOK
  <2>3. Keeps(t, r)
    <3> SUFFICES ASSUME NEW c \in Cap, c # job[t].id, Stored(c) \/ c \in Solid(job[t])
                 PROVE  Stored(c)' \/ c \in Solid(r)
      BY <2>2 DEF Keeps, Stored
    <3>1. CASE Stored(c)
      BY <3>1, <2>1 DEF Stored, HotSet
    <3>2. CASE c \in Solid(job[t])
      BY <3>2, <2>1, <1>a DEF Solid, CarryOK, Storing, Removing, Keys
    <3>3. QED
      BY <3>1, <3>2
  <2>4. QED
    BY <2>1, <2>3, <1>s
<1>6. CASE Spill(t)
  <2>1. PICK r : /\ Becomes(t, r) /\ Goes /\ job[t].pc = "spill"
                 /\ WrittenAt("warm", job[t].held)
                 /\ UNCHANGED <<hot, excused>>
    BY <1>6, <1>a, SpillEffect
  <2>2. Keeps(t, r)
    BY <2>1 DEF Keeps, Stored, WrittenAt, Solid, Storing, Removing, Keys, LowerTier
  <2>3. QED
    BY <2>1, <2>2, <1>s
<1>7. QED
  BY <1>1, <1>2, <1>3, <1>4, <1>5, <1>6 DEF HotStep

LEMMA SafeMove ==
  ASSUME TierInv, SafeInv, NEW t \in Task,
         Look(t) \/ TakeCopy(t) \/ RemoveOrder(t) \/ RemoveEntry(t) \/ Purge(t)
  PROVE  SafeInv'
<1>a. /\ Shape(job[t]) /\ CarryOK(job[t]) /\ RemovalOK(job[t], excused) /\ StoresOK
      /\ JobsShaped
  BY AtTask DEF TierInv
<1>f. job[t].id \in Cap
  BY <1>a, ShapeFields
<1>s. ASSUME NEW r, Becomes(t, r), Goes, excused \subseteq excused', Keeps(t, r)
      PROVE  SafeInv'
  BY <1>a, <1>s, SafeStep DEF Goes
<1>1. CASE Look(t)
  <2>0. job[t].from \in LowerTier
    BY <1>1, <1>a DEF Look, CarryOK
  <2>1. PICK r : Becomes(t, r) /\ Goes /\ job[t].pc = "look" /\ UNCHANGED <<hot, lower, excused>>
    BY <1>1, <1>a, <2>0, LookEffect
  <2>2. Keeps(t, r)
    BY <2>1 DEF Keeps, Stored, Solid, Storing, Removing
  <2>3. QED
    BY <2>1, <2>2, <1>s
<1>2. CASE TakeCopy(t)
  <2>0. job[t].from \in LowerTier
    BY <1>2, <1>a DEF TakeCopy, CarryOK
  <2>1. PICK r : /\ Becomes(t, r) /\ Goes /\ job[t].pc = "take"
                 /\ ErasedAt(job[t].from, {job[t].id})
                 /\ r.pc = "hot" /\ r.held = job[t].held
                 /\ UNCHANGED <<hot, excused>>
    BY <1>2, <1>a, <2>0, TakeCopyEffect DEF Carries
  <2>2. job[t].id \in Solid(r)
    BY <2>1, <1>a, <1>f DEF CarryOK, Solid, Storing, Keys
  <2>3. Keeps(t, r)
    BY <2>1, <2>2 DEF Keeps, Stored, ErasedAt, Solid, Storing, Removing
  <2>4. QED
    BY <2>1, <2>3, <1>s
<1>3. CASE RemoveOrder(t)
  <2>1. PICK r : /\ Becomes(t, r) /\ Goes /\ job[t].pc = "remove"
                 /\ r.pc = "removed" /\ r.op = job[t].op /\ r.held = job[t].held
                 /\ UNCHANGED <<hot, lower, excused>>
    BY <1>3, <1>a, RemoveOrderEffect
  <2>2. Keeps(t, r)
    BY <2>1 DEF Keeps, Stored, Solid, Storing, Removing
  <2>3. QED
    BY <2>1, <2>2, <1>s
<1>4. CASE RemoveEntry(t)
  <2>1. PICK r : /\ Becomes(t, r) /\ Goes /\ job[t].pc = "removed" /\ HotSet(job[t].id, 0)
                 /\ job[t].op = "decay" =>
                      /\ r.pc \in {"remove", "batch"} /\ r.op = "decay"
                      /\ r.held = job[t].held
                 /\ Excuse(t) /\ UNCHANGED <<order, lower>>
    BY <1>4, <1>a, RemoveEntryEffect DEF Same
  <2>e. excused \subseteq excused' /\ excused' \subseteq Cap
    BY <2>1, ExcuseThere
  <2>2. CASE job[t].op = "delete"
    <3>1. job[t].id \in excused'
      BY <1>a, <2>1, <2>2, <2>e DEF RemovalOK, Removing
    <3>2. Keeps(t, r)
      BY <2>1, <2>2, <3>1 DEF Keeps, Stored, HotSet, Solid, Storing, Removing
    <3>3. QED
      BY <2>1, <2>e, <3>2, <1>s
  <2>3. CASE job[t].op = "decay"
    <3>1. job[t].id \in Solid(r)
      BY <1>a, <2>1, <2>3 DEF RemovalOK, Removing, Solid, Storing
    <3>2. Keeps(t, r)
      BY <2>1, <2>3, <3>1 DEF Keeps, Stored, HotSet, Solid, Storing, Removing
    <3>3. QED
      BY <2>1, <2>e, <3>2, <1>s
  <2>4. CASE job[t].op = "lsct"
    <3>1. job[t].to \in LowerTier
      BY <1>a, <2>1, <2>4 DEF RemovalOK, Removing
    <3>2. job[t].id \in excused' \/ lower'[job[t].to][job[t].id] # 0
      BY <2>1, <2>4, <3>1 DEF Excuse, Overtaken, LowerTier
    <3>3. Keeps(t, r)
      BY <2>1, <2>4, <3>1, <3>2 DEF Keeps, Stored, HotSet, Solid, Storing, Removing
    <3>4. QED
      BY <2>1, <2>e, <3>3, <1>s
  <2>5. QED
    BY <1>a, <2>1, <2>2, <2>3, <2>4 DEF RemovalOK, Removing
<1>5. CASE Purge(t)
  <2>0. job[t].from \in LowerTier
    BY <1>5, <1>a DEF Purge, CarryOK
  <2>1. PICK r : /\ Becomes(t, r) /\ Goes /\ job[t].pc = "purge"
                 /\ ErasedAt(job[t].from, {job[t].id}) /\ UNCHANGED <<hot, excused>>
    BY <1>5, <1>a, <2>0, PurgeEffect
  <2>2. job[t].id \in excused'
    BY <1>a, <2>1 DEF RemovalOK
  <2>3. Keeps(t, r)
    BY <2>1, <2>2 DEF Keeps, Stored, ErasedAt, Solid, Storing, Removing
  <2>4. QED
    BY <2>1, <2>3, <1>s
<1>6. QED
  BY <1>1, <1>2, <1>3, <1>4, <1>5

LEMMA SafeDecay ==
  ASSUME TierInv, SafeInv, NEW t \in Task, DecayStep(t)
  PROVE  SafeInv'
<1>a. /\ Shape(job[t]) /\ CarryOK(job[t]) /\ RemovalOK(job[t], excused) /\ StoresOK
      /\ JobsShaped
  BY AtTask DEF TierInv
<1>f. job[t].held \in Entries
  BY <1>a, ShapeFields
<1>s. ASSUME NEW r, Becomes(t, r), Goes, excused' = excused, Keeps(t, r)
      PROVE  SafeInv'
  BY <1>a, <1>s, SafeStep DEF Goes
<1>q. ASSUME NEW r, UNCHANGED <<hot, lower>>, job[t].pc \in {"meta", "filter", "peek"}
      PROVE  Keeps(t, r)
  BY <1>q DEF Keeps, Stored, Solid, Storing, Removing
<1>1. CASE DecayMeta(t)
  <2>0. job[t].from \in {"warm", "cold"}
    BY <1>1, <1>a DEF DecayMeta, CarryOK
  <2>1. PICK r : Becomes(t, r) /\ Goes /\ job[t].pc = "meta" /\ UNCHANGED <<hot, lower, excused>>
    BY <1>1, <1>a, <2>0, DecayMetaEffect
  <2>2. QED
    BY <2>1, <1>q, <1>s
<1>2. CASE DecayFilter(t)
  <2>1. PICK r : Becomes(t, r) /\ Goes /\ job[t].pc = "filter" /\ UNCHANGED <<hot, lower, excused>>
    BY <1>2, <1>a, DecayFilterEffect
  <2>2. QED
    BY <2>1, <1>q, <1>s
<1>3. CASE DecayPeek(t)
  <2>0. job[t].from \in {"warm", "cold"}
    BY <1>3, <1>a DEF DecayPeek, CarryOK
  <2>1. PICK r : Becomes(t, r) /\ Goes /\ job[t].pc = "peek" /\ UNCHANGED <<hot, lower, excused>>
    BY <1>3, <1>a, <2>0, DecayPeekEffect
  <2>2. QED
    BY <2>1, <1>q, <1>s
<1>4. CASE DecayUnlink(t)
  <2>0. job[t].from \in {"warm", "cold"}
    BY <1>4, <1>a DEF DecayUnlink, CarryOK
  <2>1. PICK r : /\ Becomes(t, r) /\ Goes /\ job[t].pc = "unlink"
                 /\ ErasedAt(job[t].from, Keys(job[t].held))
                 /\ r.pc = "batch" /\ r.held = job[t].held
                 /\ UNCHANGED <<hot, excused>>
    BY <1>4, <1>a, <2>0, DecayUnlinkEffect
  <2>2. Keeps(t, r)
    BY <2>1 DEF Keeps, Stored, ErasedAt, Solid, Storing, Removing
  <2>3. QED
    BY <2>1, <2>2, <1>s
<1>5. CASE DecayBatch(t)
  <2>0. job[t].to \in LowerTier
    BY <1>5, <1>a DEF DecayBatch, CarryOK
  <2>1. PICK r, S :
            /\ Becomes(t, r) /\ Goes /\ job[t].pc = "batch"
            /\ WrittenAt(job[t].to, Only(job[t].held, S))
            /\ \/ r.pc = "batch" /\ r.held = Only(job[t].held, Cap \ S)
               \/ Keys(Only(job[t].held, Cap \ S)) = {}
            /\ UNCHANGED <<hot, excused>>
    BY <1>5, <1>a, <2>0, DecayBatchEffect
  <2>2. /\ \A c \in Cap : Only(job[t].held, S)[c] = IF c \in S THEN job[t].held[c] ELSE 0
        /\ Keys(Only(job[t].held, Cap \ S)) = Keys(job[t].held) \ S
    BY <1>f, OnlyThere DEF Keys
  <2>3. Solid(job[t]) = Keys(job[t].held) /\ Keys(job[t].held) \ S \subseteq Solid(r)
    BY <2>1, <2>2 DEF Solid
  <2>4. \A c \in Cap : Stored(c) => Stored(c)'
    BY <2>1, <2>2 DEF Stored, WrittenAt
  <2>5. \A c \in Keys(job[t].held) \cap S : Stored(c)'
    BY <2>0, <2>1, <2>2 DEF Stored, WrittenAt, Keys
  <2>6. Keeps(t, r)
    BY <2>3, <2>4, <2>5 DEF Keeps
  <2>7. QED
    BY <2>1, <2>6, <1>s
<1>6. QED
  BY <1>1, <1>2, <1>3, <1>4, <1>5 DEF DecayStep

LEMMA SafeLsct ==
  ASSUME TierInv, SafeInv, NEW t \in Task, LsctWrite(t) \/ LsctErase(t) \/ StorageError(t)
  PROVE  SafeInv'
<1>a. /\ Shape(job[t]) /\ CarryOK(job[t]) /\ RemovalOK(job[t], excused) /\ StoresOK
      /\ JobsShaped
  BY AtTask DEF TierInv
<1>f. job[t].id \in Cap /\ job[t].to \in Tier
  BY <1>a, ShapeFields
<1>1. CASE LsctWrite(t)
  <2>0. job[t].to \in LowerTier
    BY <1>1, <1>a DEF LsctWrite, CarryOK
  <2>1. PICK r : /\ Becomes(t, r) /\ job[t].pc = "write" /\ WrittenAt(job[t].to, job[t].held)
                 /\ UNCHANGED <<hot, latest, excused>>
    BY <1>1, <1>a, <2>0, LsctWriteEffect
  <2>2. Keeps(t, r)
    BY <2>1 DEF Keeps, Stored, WrittenAt, Solid, Storing, Removing
  <2>3. QED
    BY <2>1, <2>2, <1>a, SafeStep
<1>2. CASE LsctErase(t)
  <2>0. job[t].from \in LowerTier
    BY <1>2, <1>a DEF LsctErase, CarryOK
  <2>1. PICK r : /\ Becomes(t, r) /\ job[t].pc = "erase"
                 /\ ErasedAt(job[t].from, {job[t].id}) /\ Excuse(t)
                 /\ UNCHANGED <<hot, latest>>
    BY <1>2, <1>a, <2>0, LsctEraseEffect
  <2>e. excused \subseteq excused'
    BY <2>1, ExcuseThere
  <2>2. job[t].op = "lsct" /\ job[t].from # job[t].to
    BY <1>a, <2>1 DEF RemovalOK
  <2>3. \/ job[t].id \in excused'
        \/ hot'[job[t].id] # 0
        \/ job[t].to \in LowerTier /\ lower'[job[t].to][job[t].id] # 0
    BY <1>f, <2>1, <2>2 DEF Excuse, Overtaken, ErasedAt, Tier
  <2>4. Keeps(t, r)
    BY <2>1, <2>3 DEF Keeps, Stored, ErasedAt, Solid, Storing, Removing
  <2>5. QED
    BY <2>1, <2>4, <2>e, <1>a, SafeStep
<1>3. CASE StorageError(t)
  <2>1. Becomes(t, Free) /\ excused \subseteq excused' /\ UNCHANGED <<hot, lower, latest>>
    BY <1>3, FreeShape DEF StorageError, Go, Becomes
  <2>2. Solid(job[t]) \subseteq excused'
    BY <1>3 DEF StorageError, Solid, Storing, Removing
  <2>3. Keeps(t, Free)
    BY <2>1, <2>2 DEF Keeps, Stored
  <2>4. QED
    BY <2>1, <2>3, <1>a, SafeStep
<1>4. QED
  BY <1>1, <1>2, <1>3

\* coordinator.rs: whatever operations of however many tasks interleave, and
\* whichever storage calls fail, an inserted id is in a tier or carried by a task
\* that is bound to write it, unless it was deleted, dropped by a reported error
\* or erased by an LSCT migration that was overtaken.
THEOREM NothingLostProved == TierSpec => []NothingLost
<1>1. TierInit => TierInv /\ SafeInv
  <2>1. TierInit => SafeInv
    BY NothingThere DEF TierInit, SafeInv
  <2>2. QED
    BY <2>1, TierStarts
<1>2. TierInv /\ SafeInv /\ [TierNext]_tierVars => (TierInv /\ SafeInv)'
  <2> SUFFICES ASSUME TierInv, SafeInv, [TierNext]_tierVars PROVE SafeInv'
    BY TierTypeStep
  <2>1. CASE UNCHANGED tierVars
    BY <2>1, Zenon DEF SafeInv, Stored, tierVars
  <2>2. CASE TierNext
    <3>1. PICK t \in Task :
            \/ \E c \in Cap : Insert(t, c) \/ GetHot(t, c) \/ GetMiss(t, c) \/ Delete(t, c)
            \/ DecaySnapshot(t)
            \/ \E c \in Cap, from, to \in Tier : LsctStart(t, c, from, to)
            \/ HotStep(t)
            \/ Look(t) \/ TakeCopy(t) \/ RemoveOrder(t) \/ RemoveEntry(t) \/ Purge(t)
            \/ DecayStep(t)
            \/ LsctWrite(t) \/ LsctErase(t) \/ StorageError(t)
      BY <2>2, Zenon DEF TierNext, Tier
    <3>2. QED
      BY <3>1, SafeBegin, SafeBeginOther, SafeHot, SafeMove, SafeDecay, SafeLsct
  <2>3. QED
    BY <2>1, <2>2
<1>3. TierInv /\ SafeInv => NothingLost
  <2> SUFFICES ASSUME TierInv, SafeInv, NEW c \in Cap \ excused, NEW n \in 1 .. ops,
                      latest[c] = n
               PROVE  \/ hot[c] # 0
                      \/ \E x \in LowerTier : lower[x][c] # 0
                      \/ \E t \in Task : job[t].held[c] # 0
    BY DEF NothingLost
  <2>1. latest[c] # 0
    BY DEF TierInv, StoresOK
  <2>2. \A t \in Task : c \in Solid(job[t]) => job[t].held[c] # 0
    BY DEF Solid, Keys
  <2>3. QED
    BY <2>1, <2>2 DEF SafeInv, Stored
<1>4. QED
  BY <1>1, <1>2, <1>3, PTL DEF TierSpec

-----------------------------------------------------------------------------
(* Without overlapping operations the last insert is read.                 *)

LsctPlaces == Storing \cup {"write", "erase"}

LEMMA CalmStep ==
  ASSUME TierInv, NEW t \in Task, NEW r, Becomes(t, r),
         calm' => /\ IdleBut(t)
                  /\ r.pc = "idle" => \A c \in Cap : Right(c)'
                  /\ r.pc # "idle" => IF r.op = "lsct" THEN r.pc \in LsctPlaces ELSE CalmOK(r)'
  PROVE  CalmInv'
<1>1. job'[t] = r /\ \A u \in Task \ {t} : job'[u] = job[u]
  BY BecomesThere DEF TierInv
<1> SUFFICES ASSUME calm'
             PROVE  /\ AllIdle' => \A c \in Cap : Right(c)'
                    /\ \A u \in Task : job'[u].pc # "idle" =>
                         /\ IdleBut(u)'
                         /\ IF job'[u].op = "lsct" THEN job'[u].pc \in LsctPlaces
                            ELSE CalmOK(job[u])'
  BY Zenon DEF CalmInv, LsctPlaces
<1>2. \A u \in Task : job'[u].pc # "idle" => u = t
  BY <1>1 DEF IdleBut
<1>3. IdleBut(t)'
  BY <1>1 DEF IdleBut
<1>4. r.pc # "idle" /\ r.op # "lsct" => CalmOK(job[t])'
  BY <1>1
<1>5. QED
  BY <1>1, <1>2, <1>3, <1>4 DEF AllIdle

\* What is known at a task that begins, and at one that goes on.
LEMMA CalmBegins ==
  ASSUME CalmInv, NEW t \in Task, job[t].pc = "idle", calm' = (calm /\ IdleBut(t)), calm'
  PROVE  IdleBut(t) /\ \A c \in Cap : Right(c)
<1>1. calm /\ IdleBut(t)
  OBVIOUS
<1>2. AllIdle
  BY <1>1 DEF AllIdle, IdleBut
<1>3. QED
  BY <1>1, <1>2 DEF CalmInv

LEMMA CalmGoes ==
  ASSUME CalmInv, NEW t \in Task, job[t].pc # "idle", calm
  PROVE  /\ IdleBut(t)
         /\ IF job[t].op = "lsct" THEN job[t].pc \in LsctPlaces ELSE CalmOK(job[t])
  BY Zenon DEF CalmInv, LsctPlaces

\* An id whose tiers and last insert stay as they are.
LEMMA RightStays ==
  ASSUME NEW c \in Cap, Right(c), hot'[c] = hot[c], latest'[c] = latest[c],
         \A x \in LowerTier : lower'[x][c] = lower[x][c]
  PROVE  Right(c)'
  BY DEF Right, Top, LowerTier

LEMMA CalmBegin ==
  ASSUME TierInv, CalmInv, NEW t \in Task, NEW c \in Cap,
         Insert(t, c) \/ GetHot(t, c) \/ GetMiss(t, c) \/ Delete(t, c)
  PROVE  CalmInv'
<1>a. StoresOK
  BY DEF TierInv
<1>b. ASSUME BeginsOp(t), calm' PROVE IdleBut(t) /\ \A d \in Cap : Right(d)
  BY <1>b, CalmBegins DEF BeginsOp
<1>r. ASSUME BeginsOp(t), calm', NEW d \in Cap, latest'[d] = latest[d] PROVE Right(d)'
  BY <1>r, <1>b, RightStays DEF BeginsOp
<1>1. CASE Insert(t, c)
  <2>1. PICK r : /\ Becomes(t, r) /\ BeginsOp(t)
                 /\ r.pc = "hot" /\ r.op = "insert" /\ r.id = c /\ r.vic = c
                 /\ r.held[c] = ops + 1
                 /\ latest' = [latest EXCEPT ![c] = ops + 1]
    BY <1>1, <1>a, InsertEffect
  <2>2. latest'[c] = ops + 1 /\ \A d \in Cap \ {c} : latest'[d] = latest[d]
    BY <2>1, <1>a DEF StoresOK, Entries
  <2>3. ASSUME calm' PROVE CalmOK(r)'
    BY <2>1, <2>2, <2>3, <1>r DEF CalmOK, CalmHot, CalmRead, CalmGone, Removing
  <2>4. QED
    BY <2>1, <2>3, <1>b, CalmStep
<1>2. CASE GetHot(t, c)
  <2>1. PICK r : /\ Becomes(t, r) /\ BeginsOp(t) /\ IsFree(r) /\ latest' = latest
    BY <1>2, GetHotEffect
  <2>2. QED
    BY <2>1, <1>b, <1>r, CalmStep DEF IsFree
<1>3. CASE GetMiss(t, c)
  <2>1. PICK r : /\ Becomes(t, r) /\ BeginsOp(t) /\ hot[c] = 0
                 /\ r.pc = "look" /\ r.op = "get" /\ r.id = c /\ r.from = "warm"
                 /\ latest' = latest
    BY <1>3, GetMissEffect
  <2>2. ASSUME calm' PROVE CalmOK(r)'
    <3>1. Clear(c, "warm")'
      BY <2>1 DEF Clear, BeginsOp
    <3>2. QED
      BY <2>1, <2>2, <3>1, <1>r DEF CalmOK, CalmHot, CalmRead, CalmGone, Removing
  <2>3. QED
    BY <2>1, <2>2, <1>b, CalmStep
<1>4. CASE Delete(t, c)
  <2>1. PICK r : /\ Becomes(t, r) /\ BeginsOp(t)
                 /\ r.pc = "remove" /\ r.op = "delete" /\ r.todo = {c}
                 /\ latest' = [latest EXCEPT ![c] = 0]
    BY <1>4, DeleteEffect
  <2>2. latest'[c] = 0 /\ \A d \in Cap \ {c} : latest'[d] = latest[d]
    BY <2>1, <1>a DEF StoresOK, Entries
  <2>3. ASSUME calm' PROVE CalmOK(r)'
    BY <2>1, <2>2, <2>3, <1>r DEF CalmOK, CalmHot, CalmRead, CalmGone, Removing
  <2>4. QED
    BY <2>1, <2>3, <1>b, CalmStep
<1>5. QED
  BY <1>1, <1>2, <1>3, <1>4

LEMMA CalmBeginOther ==
  ASSUME TierInv, CalmInv, NEW t \in Task,
         DecaySnapshot(t) \/ \E c \in Cap, from, to \in Tier : LsctStart(t, c, from, to)
  PROVE  CalmInv'
<1>a. StoresOK
  BY DEF TierInv
<1>b. ASSUME BeginsOp(t), calm' PROVE IdleBut(t) /\ \A d \in Cap : Right(d)
  BY <1>b, CalmBegins DEF BeginsOp
<1>1. CASE DecaySnapshot(t)
  <2>1. PICK r : /\ Becomes(t, r) /\ BeginsOp(t)
                 /\ r.pc = "meta" /\ r.op = "decay"
                 /\ \A c \in Keys(r.snap) : r.snap[c] = hot[c]
                 /\ latest' = latest
    BY <1>1, <1>a, SnapshotEffect
  <2>2. ASSUME calm' PROVE CalmOK(r)'
    <3>1. \A c \in Cap : Right(c)'
      BY <2>1, <2>2, <1>b, RightStays DEF BeginsOp
    <3>2. \A c \in Keys(r.snap) : r.snap[c] = hot'[c]
      BY <2>1 DEF BeginsOp
    <3>3. QED
      BY <2>1, <3>1, <3>2 DEF CalmOK, CalmHot, CalmRead, CalmGone, Removing
  <2>3. QED
    BY <2>1, <2>2, <1>b, CalmStep
<1>2. ASSUME NEW c \in Cap, NEW from \in Tier, NEW to \in Tier, LsctStart(t, c, from, to)
      PROVE  CalmInv'
  <2>1. PICK r : /\ Becomes(t, r) /\ BeginsOp(t)
                 /\ r.pc = (IF to = "hot" THEN "hot" ELSE "write") /\ r.op = "lsct"
    BY <1>2, <1>a, LsctStartEffect
  <2>2. r.pc \in LsctPlaces /\ r.pc # "idle"
    BY <2>1 DEF LsctPlaces, Storing
  <2>3. QED
    BY <2>1, <2>2, <1>b, CalmStep
<1>3. QED
  BY <1>1, <1>2

LEMMA CalmStoring ==
  ASSUME TierInv, CalmInv, NEW t \in Task, HotStep(t)
  PROVE  CalmInv'
<1>a. /\ Shape(job[t]) /\ CarryOK(job[t]) /\ RemovalOK(job[t], excused) /\ StoresOK
  BY AtTask
<1>f. /\ job[t].id \in Cap /\ job[t].vic \in Cap
  BY <1>a, ShapeFields
<1>c. ASSUME NEW r, Becomes(t, r), Goes, job[t].pc # "idle",
             r.pc = "idle" => job[t].op # "lsct" /\ (CalmOK(job[t]) => \A c \in Cap : Right(c)'),
             r.pc # "idle" => r.op = job[t].op /\ r.pc \in LsctPlaces,
             r.pc # "idle" /\ r.op # "lsct" /\ CalmOK(job[t]) => CalmOK(r)'
      PROVE  CalmInv'
  <2>1. calm' => IdleBut(t) /\ IF job[t].op = "lsct" THEN job[t].pc \in LsctPlaces ELSE CalmOK(job[t])
    BY <1>c, CalmGoes DEF Goes
  <2>2. QED
    BY <1>c, <2>1, CalmStep
<1>r. ASSUME NEW c \in Cap, Right(c), Goes, hot'[c] = hot[c], lower' = lower PROVE Right(c)'
  BY <1>r, RightStays DEF Goes
<1>1. CASE HotLock(t)
  <2>1. PICK r : /\ Becomes(t, r) /\ Goes /\ job[t].pc = "hot" /\ Carries(r, job[t])
                 /\ r.vic = job[t].id /\ r.pc \in {"evict", "order"}
                 /\ r.pc = "evict" => hot[r.id] = 0
                 /\ UNCHANGED <<hot, lower>>
    BY <1>1, <1>a, HotLockEffect
  <2>2. ASSUME CalmOK(job[t]) PROVE CalmOK(r)'
    <3>1. /\ r.held[r.id] = latest'[r.id] /\ \A c \in Cap \ {r.id} : Right(c)'
          /\ r.pc = "evict" => hot'[r.id] = 0
      BY <2>1, <2>2, <1>r DEF CalmOK, CalmHot, Carries, Goes
    <3>2. QED
      BY <2>1, <3>1 DEF CalmOK, CalmHot, CalmRead, CalmGone, Removing, Carries
  <2>3. QED
    BY <2>1, <2>2, <1>c DEF Carries, LsctPlaces, Storing
<1>2. CASE HotEvict(t)
  <2>1. PICK r : /\ Becomes(t, r) /\ Goes /\ job[t].pc = "evict" /\ Carries(r, job[t])
                 /\ \/ r.pc = "order" /\ r.vic = job[t].vic
                    \/ r.pc = "evicted"
                 /\ UNCHANGED <<hot, lower>>
    BY <1>2, <1>a, HotEvictEffect DEF StoresOK
  <2>2. ASSUME CalmOK(job[t]) PROVE CalmOK(r)'
    <3>1. /\ r.held[r.id] = latest'[r.id] /\ \A c \in Cap \ {r.id} : Right(c)'
          /\ hot'[r.id] = 0 /\ (r.pc = "order" => r.vic = r.id)
      BY <2>1, <2>2, <1>a, <1>r DEF CalmOK, CalmHot, Carries, Goes, CarryOK
    <3>2. QED
      BY <2>1, <3>1 DEF CalmOK, CalmHot, CalmRead, CalmGone, Removing
  <2>3. QED
    BY <2>1, <2>2, <1>c DEF Carries, LsctPlaces, Storing
<1>3. CASE HotEvicted(t)
  <2>1. PICK r : /\ Becomes(t, r) /\ Goes /\ job[t].pc = "evicted" /\ r.pc = "order"
                 /\ r.op = job[t].op /\ r.id = job[t].id
                 /\ \A c \in Cap : hot'[c] = IF c = job[t].vic THEN 0 ELSE hot[c]
                 /\ IF hot[job[t].vic] = 0
                    THEN r.vic = r.id /\ r.held = job[t].held
                    ELSE /\ r.vic = job[t].vic
                         /\ \A c \in Cap : r.held[c] = IF c = r.vic THEN hot[c] ELSE job[t].held[c]
                 /\ lower' = lower
    BY <1>3, <1>a, HotEvictedEffect
  <2>2. ASSUME CalmOK(job[t]) PROVE CalmOK(r)'
    <3>0. /\ job[t].held[job[t].id] = latest[job[t].id] /\ hot[job[t].id] = 0
          /\ \A c \in Cap \ {job[t].id} : Right(c)
      BY <2>1, <2>2 DEF CalmOK, CalmHot
    <3>1. \A c \in Cap \ {r.id, r.vic} : Right(c)'
      BY <2>1, <3>0, <1>r
    <3>2. r.held[r.id] = latest'[r.id]
      BY <2>1, <3>0, <1>f DEF Goes
    <3>3. r.vic # r.id => hot'[r.vic] = 0 /\ r.held[r.vic] # 0 /\ r.held[r.vic] = latest'[r.vic]
      BY <2>1, <3>0, <1>f DEF Goes, Right, Top
    <3>4. QED
      BY <2>1, <3>1, <3>2, <3>3 DEF CalmOK, CalmHot, CalmRead, CalmGone, Removing
  <2>3. QED
    BY <2>1, <2>2, <1>c DEF LsctPlaces, Storing
<1>4. CASE HotOrder(t)
  <2>1. PICK r : /\ Becomes(t, r) /\ Goes /\ job[t].pc = "order" /\ Carries(r, job[t])
                 /\ r.pc = "put" /\ r.vic = job[t].vic
                 /\ UNCHANGED <<hot, lower>>
    BY <1>4, <1>a, HotOrderEffect
  <2>2. ASSUME CalmOK(job[t]) PROVE CalmOK(r)'
    <3>1. /\ r.held[r.id] = latest'[r.id] /\ \A c \in Cap \ {r.id, r.vic} : Right(c)'
          /\ r.vic # r.id =>
               hot'[r.vic] = 0 /\ r.held[r.vic] # 0 /\ r.held[r.vic] = latest'[r.vic]
      BY <2>1, <2>2, <1>r DEF CalmOK, CalmHot, Carries, Goes
    <3>2. QED
      BY <2>1, <3>1 DEF CalmOK, CalmHot, CalmRead, CalmGone, Removing
  <2>3. QED
    BY <2>1, <2>2, <1>c DEF Carries, LsctPlaces, Storing
<1>5. CASE HotPut(t)
  <2>1. PICK r : /\ Becomes(t, r) /\ Goes /\ job[t].pc = "put"
                 /\ HotSet(job[t].id, job[t].held[job[t].id])
                 /\ \/ /\ job[t].vic = job[t].id /\ job[t].op = "lsct"
                       /\ r.pc = "erase" /\ Same(r, job[t])
                    \/ job[t].vic = job[t].id /\ job[t].op # "lsct" /\ IsFree(r)
                    \/ /\ job[t].vic # job[t].id
                       /\ r.pc = "spill" /\ Same(r, job[t]) /\ r.vic = job[t].vic
                       /\ \A d \in Cap : r.held[d] = IF d = r.id THEN 0 ELSE job[t].held[d]
                 /\ lower' = lower
    BY <1>5, <1>a, HotPutEffect
  <2>2. ASSUME CalmOK(job[t]) PROVE \A c \in Cap : c = job[t].id \/ c # job[t].vic => Right(c)'
    <3>1. /\ job[t].held[job[t].id] = latest[job[t].id]
          /\ \A c \in Cap \ {job[t].id, job[t].vic} : Right(c)
      BY <2>1, <2>2 DEF CalmOK, CalmHot
    <3>2. hot'[job[t].id] # 0 /\ hot'[job[t].id] = latest'[job[t].id]
      BY <2>1, <3>1, <1>a, <1>f DEF HotSet, CarryOK, Goes
    <3>3. ASSUME NEW c \in Cap, c # job[t].id, c # job[t].vic PROVE Right(c)'
      BY <2>1, <3>1, <3>3, <1>r DEF HotSet
    <3>4. ASSUME NEW c \in Cap, c = job[t].id PROVE Right(c)'
      BY <3>2, <3>4 DEF Right, Top
    <3>5. QED
      BY <3>3, <3>4
  <2>3. CASE job[t].vic = job[t].id
    BY <2>1, <2>2, <2>3, <1>c DEF Same, IsFree, LsctPlaces, Storing
  <2>4. CASE job[t].vic # job[t].id
    <3>1. ASSUME CalmOK(job[t]) PROVE CalmOK(r)'
      <4>1. hot[job[t].vic] = 0 /\ job[t].held[job[t].vic] # 0
            /\ job[t].held[job[t].vic] = latest[job[t].vic]
        BY <2>1, <2>4, <3>1 DEF CalmOK, CalmHot
      <4>2. hot'[r.vic] = 0 /\ r.held[r.vic] # 0 /\ r.held[r.vic] = latest'[r.vic]
        BY <2>1, <2>4, <4>1, <1>f DEF HotSet, Goes, Same
      <4>3. \A c \in Cap \ {r.vic} : Right(c)'
        BY <2>1, <2>2, <2>4, <3>1
      <4>4. QED
        BY <2>1, <2>4, <4>2, <4>3 DEF CalmOK, CalmHot, CalmRead, CalmGone, Removing, Same
    <3>2. QED
      BY <2>1, <2>4, <3>1, <1>c DEF Same, LsctPlaces, Storing
  <2>5. QED
    BY <2>3, <2>4
<1>6. CASE Spill(t)
  <2>1. PICK r : /\ Becomes(t, r) /\ Goes /\ job[t].pc = "spill"
                 /\ WrittenAt("warm", job[t].held)
                 /\ \/ job[t].op = "lsct" /\ r.pc = "erase" /\ Same(r, job[t])
                    \/ job[t].op # "lsct" /\ IsFree(r)
                 /\ hot' = hot
    BY <1>6, <1>a, SpillEffect
  <2>2. ASSUME CalmOK(job[t]) PROVE \A c \in Cap : Right(c)'
    <3>1. /\ hot[job[t].vic] = 0 /\ job[t].held[job[t].vic] # 0
          /\ job[t].held[job[t].vic] = latest[job[t].vic]
          /\ \A c \in Cap \ {job[t].vic} : Right(c)
      BY <2>1, <2>2 DEF CalmOK, CalmHot
    <3>2. \A c \in Cap \ {job[t].vic} : job[t].held[c] = 0
      BY <2>1, <1>a DEF CarryOK, Keys
    <3>3. ASSUME NEW c \in Cap, c # job[t].vic PROVE Right(c)'
      BY <2>1, <3>1, <3>2, <3>3, RightStays DEF WrittenAt, Goes
    <3>4. lower'["warm"][job[t].vic] = latest'[job[t].vic] /\ lower'["warm"][job[t].vic] # 0
      BY <2>1, <3>1, <1>f DEF WrittenAt, Goes, LowerTier
    <3>5. ASSUME NEW c \in Cap, c = job[t].vic PROVE Right(c)'
      BY <2>1, <3>1, <3>4, <3>5 DEF Right, Top
    <3>6. QED
      BY <3>3, <3>5
  <2>3. QED
    BY <2>1, <2>2, <1>c DEF Same, IsFree, LsctPlaces, Storing
<1>7. QED
  BY <1>1, <1>2, <1>3, <1>4, <1>5, <1>6 DEF HotStep

LEMMA CalmMove ==
  ASSUME TierInv, CalmInv, NEW t \in Task,
         Look(t) \/ TakeCopy(t) \/ RemoveOrder(t) \/ RemoveEntry(t) \/ Purge(t)
  PROVE  CalmInv'
<1>a. /\ Shape(job[t]) /\ CarryOK(job[t]) /\ RemovalOK(job[t], excused) /\ StoresOK
  BY AtTask
<1>f. job[t].id \in Cap
  BY <1>a, ShapeFields
<1>0. job[t].pc \in {"look", "take", "remove", "removed", "purge"}
  BY DEF Look, TakeCopy, RemoveOrder, RemoveEntry, Purge
<1>c. ASSUME NEW r, Becomes(t, r), Goes,
             CalmOK(job[t]) /\ job[t].op # "lsct" =>
               /\ r.pc = "idle" => \A c \in Cap : Right(c)'
               /\ r.pc # "idle" => r.op # "lsct" /\ CalmOK(r)'
      PROVE  CalmInv'
  <2>1. calm' => IdleBut(t) /\ CalmOK(job[t]) /\ job[t].op # "lsct"
    BY <1>0, <1>c, CalmGoes DEF Goes, LsctPlaces, Storing
  <2>2. QED
    BY <1>c, <2>1, CalmStep
<1>1. CASE Look(t)
  <2>0. job[t].from \in LowerTier
    BY <1>1, <1>a DEF Look, CarryOK
  <2>1. PICK r : /\ Becomes(t, r) /\ Goes /\ job[t].pc = "look"
                 /\ \/ /\ lower[job[t].from][job[t].id] # 0
                       /\ r.pc = "take" /\ Same(r, job[t])
                       /\ \A d \in Cap : r.held[d] = IF d = r.id THEN lower[r.from][d]
                                                     ELSE job[t].held[d]
                    \/ IsFree(r)
                    \/ /\ lower[job[t].from][job[t].id] = 0
                       /\ job[t].from # "ice" /\ r.pc = "look" /\ r.from = TierBelow[job[t].from]
                       /\ r.op = job[t].op /\ r.id = job[t].id
                 /\ UNCHANGED <<hot, lower>>
    BY <1>1, <1>a, <2>0, LookEffect
  <2>2. SUFFICES ASSUME CalmOK(job[t]), job[t].op # "lsct"
                 PROVE  /\ r.pc = "idle" => \A c \in Cap : Right(c)'
                        /\ r.pc # "idle" => r.op # "lsct" /\ CalmOK(r)'
    BY <2>1, <1>c
  <2>3. (\A c \in Cap : Right(c)) /\ Clear(job[t].id, job[t].from)
    BY <2>1, <2>2 DEF CalmOK, CalmRead
  <2>4. \A c \in Cap : Right(c)'
    BY <2>1, <2>3, RightStays DEF Goes
  <2>5. CASE IsFree(r)
    BY <2>4, <2>5 DEF IsFree
  <2>6. CASE /\ lower[job[t].from][job[t].id] # 0
             /\ r.pc = "take" /\ Same(r, job[t])
             /\ \A d \in Cap : r.held[d] = IF d = r.id THEN lower[r.from][d] ELSE job[t].held[d]
    <3>1. Right(job[t].id)
      BY <2>3, <1>f
    <3>2. r.held[r.id] = latest'[r.id]
      BY <2>0, <2>1, <2>3, <2>6, <3>1, <1>f DEF Same, Goes, Clear, Right, Top, LowerTier
    <3>3. Clear(r.id, r.from)'
      BY <2>1, <2>3, <2>6 DEF Clear, Same
    <3>4. QED
      BY <2>2, <2>4, <2>6, <3>2, <3>3
      DEF CalmOK, CalmHot, CalmRead, CalmGone, Removing, Same
  <2>7. CASE /\ lower[job[t].from][job[t].id] = 0
             /\ job[t].from # "ice" /\ r.pc = "look" /\ r.from = TierBelow[job[t].from]
             /\ r.op = job[t].op /\ r.id = job[t].id
    <3>1. Clear(r.id, r.from)'
      BY <2>0, <2>1, <2>3, <2>7 DEF Clear, LowerTier, TierBelow
    <3>2. QED
      BY <2>2, <2>4, <2>7, <3>1 DEF CalmOK, CalmHot, CalmRead, CalmGone, Removing
  <2>8. QED
    BY <2>1, <2>5, <2>6, <2>7
<1>2. CASE TakeCopy(t)
  <2>0. job[t].from \in LowerTier
    BY <1>2, <1>a DEF TakeCopy, CarryOK
  <2>1. PICK r : /\ Becomes(t, r) /\ Goes /\ job[t].pc = "take"
                 /\ ErasedAt(job[t].from, {job[t].id})
                 /\ r.pc = "hot" /\ Carries(r, job[t])
                 /\ hot' = hot
    BY <1>2, <1>a, <2>0, TakeCopyEffect
  <2>2. SUFFICES ASSUME CalmOK(job[t]), job[t].op # "lsct"
                 PROVE  r.op # "lsct" /\ CalmOK(r)'
    BY <2>1, <1>c
  <2>3. (\A c \in Cap : Right(c)) /\ job[t].held[job[t].id] = latest[job[t].id]
    BY <2>1, <2>2 DEF CalmOK, CalmRead
  <2>4. \A c \in Cap \ {r.id} : Right(c)'
    BY <2>1, <2>3, RightStays DEF Goes, ErasedAt, Carries
  <2>5. r.held[r.id] = latest'[r.id]
    BY <2>1, <2>3 DEF Goes, Carries
  <2>6. QED
    BY <2>1, <2>2, <2>4, <2>5 DEF CalmOK, CalmHot, CalmRead, CalmGone, Removing, Carries
<1>3. CASE RemoveOrder(t)
  <2>1. PICK r : /\ Becomes(t, r) /\ Goes /\ job[t].pc = "remove"
                 /\ r.pc = "removed" /\ r.op = job[t].op /\ r.held = job[t].held
                 /\ r.todo = job[t].todo
                 /\ UNCHANGED <<hot, lower>>
    BY <1>3, <1>a, RemoveOrderEffect
  <2>2. SUFFICES ASSUME CalmOK(job[t]), job[t].op # "lsct"
                 PROVE  r.op # "lsct" /\ CalmOK(r)'
    BY <2>1, <1>c
  <2>3. \A c \in Cap : Right(c) => Right(c)'
    BY <2>1, RightStays DEF Goes
  <2>4. r.op = "delete" => \A c \in Cap : IF c \in r.todo THEN latest'[c] = 0 ELSE Right(c)'
    BY <2>1, <2>2, <2>3 DEF CalmOK, CalmGone, Removing, Goes
  <2>5. r.op = "decay" => \A c \in Cap : IF c \in Keys(r.held)
                                         THEN r.held[c] = latest'[c] /\ (c \in r.todo \/ hot'[c] = 0)
                                         ELSE Right(c)'
    BY <2>1, <2>2, <2>3 DEF CalmOK, CalmGone, Removing, Goes
  <2>6. QED
    BY <2>1, <2>2, <2>4, <2>5 DEF CalmOK, CalmHot, CalmRead, CalmGone, Removing
<1>4. CASE RemoveEntry(t)
  <2>1. PICK r : /\ Becomes(t, r) /\ Goes /\ job[t].pc = "removed" /\ HotSet(job[t].id, 0)
                 /\ \/ /\ r.pc = "remove" /\ Same(r, job[t]) /\ r.held = job[t].held
                       /\ r.todo = job[t].todo \ {job[t].id} /\ r.todo # {}
                    \/ /\ r.pc = "purge" /\ Same(r, job[t]) /\ job[t].op = "delete"
                       /\ job[t].todo \subseteq {job[t].id}
                    \/ /\ r.pc = "batch" /\ Same(r, job[t]) /\ job[t].op = "decay"
                       /\ r.held = job[t].held /\ job[t].todo \subseteq {job[t].id}
                    \/ job[t].op \notin {"delete", "decay"} /\ IsFree(r)
                 /\ lower' = lower
    BY <1>4, <1>a, RemoveEntryEffect
  <2>2. SUFFICES ASSUME CalmOK(job[t]), job[t].op # "lsct"
                 PROVE  /\ r.pc = "idle" => \A c \in Cap : Right(c)'
                        /\ r.pc # "idle" => r.op # "lsct" /\ CalmOK(r)'
    BY <2>1, <1>c
  <2>r. \A c \in Cap \ {job[t].id} : Right(c) => Right(c)'
    BY <2>1, RightStays DEF Goes, HotSet
  <2>h. hot'[job[t].id] = 0 /\ \A c \in Cap : hot[c] = 0 => hot'[c] = 0
    BY <2>1, <1>f DEF HotSet
  <2>i. job[t].id \in job[t].todo
    BY <2>1, <1>a DEF RemovalOK
  <2>3. CASE job[t].op = "delete"
    <3>1. job[t].todo = {job[t].id} /\ job[t].from = "warm"
      BY <2>1, <2>3, <2>i, <1>a DEF RemovalOK, Removing
    <3>2. r.pc = "purge" /\ Same(r, job[t])
      BY <2>1, <2>3, <3>1
    <3>3. latest[job[t].id] = 0 /\ \A c \in Cap \ {job[t].id} : Right(c)
      BY <2>1, <2>2, <2>3, <3>1, <1>f DEF CalmOK, CalmGone, Removing
    <3>4. latest'[r.id] = 0 /\ (\A c \in Cap \ {r.id} : Right(c)')
      BY <2>1, <3>2, <3>3, <2>r DEF Same, Goes
    <3>5. Clear(r.id, r.from)'
      BY <2>h, <3>1, <3>2 DEF Clear, Same
    <3>6. QED
      BY <2>3, <3>2, <3>4, <3>5 DEF CalmOK, CalmHot, CalmRead, CalmGone, Removing, Same
  <2>4. CASE job[t].op = "decay"
    <3>1. \A c \in Cap : IF c \in Keys(job[t].held)
                         THEN job[t].held[c] = latest[c] /\ (c \in job[t].todo \/ hot[c] = 0)
                         ELSE Right(c)
      BY <2>1, <2>2, <2>4 DEF CalmOK, CalmGone, Removing
    <3>2. job[t].todo \subseteq Keys(job[t].held) /\ job[t].to = "warm"
      BY <2>1, <2>4, <1>a DEF RemovalOK, Removing
    <3>3. /\ r.held = job[t].held /\ Same(r, job[t])
          /\ \/ r.pc = "remove" /\ r.todo = job[t].todo \ {job[t].id}
             \/ r.pc = "batch" /\ job[t].todo \subseteq {job[t].id}
      BY <2>1, <2>4
    <3>4. \A c \in Cap : IF c \in Keys(r.held)
                         THEN /\ r.held[c] = latest'[c]
                              /\ c \in job[t].todo \ {job[t].id} \/ hot'[c] = 0
                         ELSE Right(c)'
      BY <2>1, <2>r, <2>h, <2>i, <3>1, <3>2, <3>3 DEF Goes
    <3>5. CASE r.pc = "remove" /\ r.todo = job[t].todo \ {job[t].id}
      BY <2>4, <3>3, <3>4, <3>5 DEF CalmOK, CalmHot, CalmRead, CalmGone, Removing, Same
    <3>6. CASE r.pc = "batch" /\ job[t].todo \subseteq {job[t].id}
      <4>1. \A c \in Cap : IF c \in Keys(r.held) THEN r.held[c] = latest'[c] /\ hot'[c] = 0
                           ELSE Right(c)'
        BY <3>4, <3>6
      <4>2. r.to = "warm" /\ r.op = "decay"
        BY <2>4, <3>2, <3>3 DEF Same
      <4>3. \A c \in Cap : Clear(c, "warm")' <=> hot'[c] = 0
        BY DEF Clear
      <4>4. \A c \in Cap : IF c \in Keys(r.held) /\ Clear(c, r.to)'
                           THEN r.held[c] = latest'[c] ELSE Right(c)'
        BY <4>1, <4>2, <4>3
      <4>5. QED
        BY <3>6, <4>2, <4>4 DEF CalmOK, CalmHot, CalmRead, CalmGone, Removing
    <3>7. QED
      BY <3>3, <3>5, <3>6
  <2>5. QED
    BY <2>1, <2>2, <2>3, <2>4, <1>a DEF RemovalOK, Removing
<1>5. CASE Purge(t)
  <2>0. job[t].from \in LowerTier
    BY <1>5, <1>a DEF Purge, CarryOK
  <2>1. PICK r : /\ Becomes(t, r) /\ Goes /\ job[t].pc = "purge"
                 /\ ErasedAt(job[t].from, {job[t].id})
                 /\ \/ job[t].from = "ice" /\ IsFree(r)
                    \/ /\ job[t].from # "ice" /\ r.pc = "purge" /\ r.from = TierBelow[job[t].from]
                       /\ r.op = job[t].op /\ r.id = job[t].id
                 /\ hot' = hot
    BY <1>5, <1>a, <2>0, PurgeEffect
  <2>2. SUFFICES ASSUME CalmOK(job[t]), job[t].op # "lsct"
                 PROVE  /\ r.pc = "idle" => \A c \in Cap : Right(c)'
                        /\ r.pc # "idle" => r.op # "lsct" /\ CalmOK(r)'
    BY <2>1, <1>c
  <2>3. /\ latest[job[t].id] = 0 /\ Clear(job[t].id, job[t].from)
        /\ \A c \in Cap \ {job[t].id} : Right(c)
    BY <2>1, <2>2 DEF CalmOK, CalmGone
  <2>4. \A c \in Cap \ {job[t].id} : Right(c)'
    BY <2>1, <2>3, RightStays DEF Goes, ErasedAt
  <2>5. CASE job[t].from = "ice" /\ IsFree(r)
    <3>1. ASSUME NEW c \in Cap, c = job[t].id PROVE Right(c)'
      BY <2>1, <2>3, <2>5, <3>1 DEF Right, Top, Goes, ErasedAt, Clear, LowerTier
    <3>2. QED
      BY <2>4, <2>5, <3>1 DEF IsFree
  <2>6. CASE /\ job[t].from # "ice" /\ r.pc = "purge" /\ r.from = TierBelow[job[t].from]
             /\ r.op = job[t].op /\ r.id = job[t].id
    <3>1. Clear(r.id, r.from)'
      BY <2>0, <2>1, <2>3, <2>6, <1>f DEF Clear, LowerTier, TierBelow, ErasedAt
    <3>2. latest'[r.id] = 0 /\ \A c \in Cap \ {r.id} : Right(c)'
      BY <2>1, <2>3, <2>4, <2>6 DEF Goes
    <3>3. QED
      BY <2>2, <2>6, <3>1, <3>2 DEF CalmOK, CalmHot, CalmRead, CalmGone, Removing
  <2>7. QED
    BY <2>1, <2>5, <2>6
<1>6. QED
  BY <1>1, <1>2, <1>3, <1>4, <1>5

LEMMA CalmDecay ==
  ASSUME TierInv, CalmInv, NEW t \in Task, DecayStep(t)
  PROVE  CalmInv'
<1>a. /\ Shape(job[t]) /\ CarryOK(job[t]) /\ RemovalOK(job[t], excused) /\ StoresOK
  BY AtTask
<1>f. job[t].held \in Entries /\ job[t].snap \in Entries
  BY <1>a, ShapeFields
<1>0. job[t].pc \in {"meta", "filter", "peek", "unlink", "batch"} /\ job[t].op = "decay"
  BY <1>a DEF DecayStep, DecayMeta, DecayFilter, DecayPeek, DecayUnlink, DecayBatch, CarryOK
<1>c. ASSUME NEW r, Becomes(t, r), Goes,
             CalmOK(job[t]) =>
               /\ r.pc = "idle" => \A c \in Cap : Right(c)'
               /\ r.pc # "idle" => r.op # "lsct" /\ CalmOK(r)'
      PROVE  CalmInv'
  <2>1. calm' => IdleBut(t) /\ CalmOK(job[t])
    BY <1>0, <1>c, CalmGoes DEF Goes
  <2>2. QED
    BY <1>c, <2>1, CalmStep
<1>q. ASSUME CalmOK(job[t]), Goes, UNCHANGED <<hot, lower>>,
             job[t].pc \in {"meta", "filter", "peek", "unlink"}
      PROVE  \A c \in Cap : Right(c)'
  BY <1>q, RightStays DEF Goes, CalmOK, CalmRead
<1>1. CASE DecayMeta(t)
  <2>0. job[t].from \in {"warm", "cold"}
    BY <1>1, <1>a DEF DecayMeta, CarryOK
  <2>1. PICK r : /\ Becomes(t, r) /\ Goes /\ job[t].pc = "meta"
                 /\ r.pc \in {"meta", "filter"} /\ r.op = job[t].op /\ r.snap = job[t].snap
                 /\ UNCHANGED <<hot, lower>>
    BY <1>1, <1>a, <2>0, DecayMetaEffect
  <2>2. ASSUME CalmOK(job[t]) PROVE CalmOK(r)'
    <3>1. \A c \in Cap : Right(c)'
      BY <2>1, <2>2, <1>q
    <3>2. \A c \in Keys(r.snap) : r.snap[c] = hot'[c]
      BY <2>1, <2>2 DEF CalmOK, CalmRead
    <3>3. QED
      BY <2>1, <3>1, <3>2 DEF CalmOK, CalmHot, CalmRead, CalmGone, Removing
  <2>3. QED
    BY <2>1, <2>2, <1>0, <1>c
<1>2. CASE DecayFilter(t)
  <2>1. PICK r : /\ Becomes(t, r) /\ Goes /\ job[t].pc = "filter" /\ r.op = job[t].op
                 /\ r.held = Only(job[t].snap, Keys(hot))
                 /\ \/ r.pc = "peek" /\ Keys(r.held) = {}
                    \/ r.pc = "remove" /\ r.todo = Keys(r.held)
                 /\ UNCHANGED <<hot, lower>>
    BY <1>2, <1>a, DecayFilterEffect
  <2>2. ASSUME CalmOK(job[t]) PROVE CalmOK(r)'
    <3>1. \A c \in Cap : Right(c)'
      BY <2>1, <2>2, <1>q
    <3>2. /\ \A c \in Cap : r.held[c] = IF c \in Keys(hot) THEN job[t].snap[c] ELSE 0
          /\ Keys(r.held) = Keys(job[t].snap) \cap Keys(hot)
      BY <2>1, <1>f, OnlyThere
    <3>3. \A c \in Keys(r.held) : c \in Cap /\ r.held[c] = hot'[c] /\ hot'[c] # 0
      BY <2>1, <2>2, <3>2 DEF CalmOK, CalmRead, Keys
    <3>4. \A c \in Keys(r.held) : r.held[c] = latest'[c]
      BY <3>1, <3>3 DEF Right, Top
    <3>5. CASE r.pc = "peek"
      BY <2>1, <3>1, <3>5 DEF CalmOK, CalmHot, CalmRead, CalmGone, Removing
    <3>6. CASE r.pc = "remove"
      BY <2>1, <1>0, <3>1, <3>4, <3>6 DEF CalmOK, CalmHot, CalmRead, CalmGone, Removing
    <3>7. QED
      BY <2>1, <3>5, <3>6
  <2>3. QED
    BY <2>1, <2>2, <1>0, <1>c
<1>3. CASE DecayPeek(t)
  <2>0. job[t].from \in {"warm", "cold"}
    BY <1>3, <1>a DEF DecayPeek, CarryOK
  <2>1. PICK r : /\ Becomes(t, r) /\ Goes /\ job[t].pc = "peek"
                 /\ \/ r.pc = "peek" /\ Same(r, job[t]) /\ \E c : Peeked(r, job[t], c)
                    \/ r.pc = "unlink" /\ Carries(r, job[t])
                    \/ /\ Keys(job[t].held) = {}
                       /\ r.pc = "peek" /\ r.op = job[t].op /\ r.held = job[t].held
                    \/ IsFree(r)
                 /\ UNCHANGED <<hot, lower>>
    BY <1>3, <1>a, <2>0, DecayPeekEffect
  <2>2. SUFFICES ASSUME CalmOK(job[t])
                 PROVE  /\ r.pc = "idle" => \A c \in Cap : Right(c)'
                        /\ r.pc # "idle" => r.op # "lsct" /\ CalmOK(r)'
    BY <2>1, <1>c
  <2>3. \A c \in Cap : Right(c)'
    BY <2>1, <2>2, <1>q
  <2>4. CASE IsFree(r)
    BY <2>3, <2>4 DEF IsFree
  <2>5. CASE ~IsFree(r)
    <3>1. r.pc \in {"peek", "unlink"} /\ r.op = "decay"
      BY <2>1, <2>5, <1>0 DEF Same, Carries
    <3>2. \A c \in Keys(job[t].held) : job[t].held[c] = lower[job[t].from][c]
      BY <2>1, <2>2 DEF CalmOK, CalmRead
    <3>3. \A c \in Keys(r.held) : r.held[c] = lower[r.from][c]
      BY <2>1, <2>5, <3>2 DEF Same, Carries, Peeked, Keys
    <3>4. \A c \in Keys(r.held) : r.held[c] = lower'[r.from][c]
      BY <2>1, <3>3
    <3>5. QED
      BY <2>3, <3>1, <3>4 DEF CalmOK, CalmHot, CalmRead, CalmGone, Removing
  <2>6. QED
    BY <2>4, <2>5
<1>4. CASE DecayUnlink(t)
  <2>0. job[t].from \in {"warm", "cold"}
    BY <1>4, <1>a DEF DecayUnlink, CarryOK
  <2>1. PICK r : /\ Becomes(t, r) /\ Goes /\ job[t].pc = "unlink"
                 /\ ErasedAt(job[t].from, Keys(job[t].held))
                 /\ r.pc = "batch" /\ r.to = TierBelow[job[t].from]
                 /\ r.op = job[t].op /\ r.held = job[t].held
                 /\ hot' = hot
    BY <1>4, <1>a, <2>0, DecayUnlinkEffect
  <2>2. ASSUME CalmOK(job[t]) PROVE CalmOK(r)'
    <3>1. /\ \A c \in Cap : Right(c)
          /\ \A c \in Keys(job[t].held) : job[t].held[c] = lower[job[t].from][c]
      BY <2>1, <2>2 DEF CalmOK, CalmRead
    <3>2. ASSUME NEW c \in Cap, c \notin Keys(r.held) PROVE Right(c)'
      BY <2>1, <3>1, <3>2, RightStays DEF Goes, ErasedAt
    <3>3. ASSUME NEW c \in Cap, c \in Keys(r.held)
          PROVE  IF Clear(c, r.to)' THEN r.held[c] = latest'[c] ELSE Right(c)'
      <4>1. Right(c) /\ r.held[c] = lower[job[t].from][c] /\ r.held[c] # 0
        BY <2>1, <3>1, <3>3 DEF Keys
      <4>2. CASE job[t].from = "warm"
        BY <2>1, <3>3, <4>1, <4>2 DEF Goes, ErasedAt, Clear, Right, Top, TierBelow, LowerTier
      <4>3. CASE job[t].from = "cold"
        BY <2>1, <3>3, <4>1, <4>3 DEF Goes, ErasedAt, Clear, Right, Top, TierBelow, LowerTier
      <4>4. QED
        BY <2>0, <4>2, <4>3
    <3>4. QED
      BY <2>1, <3>2, <3>3 DEF CalmOK, CalmHot, CalmRead, CalmGone, Removing
  <2>3. QED
    BY <2>1, <2>2, <1>0, <1>c
<1>5. CASE DecayBatch(t)
  <2>0. job[t].to \in LowerTier
    BY <1>5, <1>a DEF DecayBatch, CarryOK
  <2>1. PICK r, S :
            /\ Becomes(t, r) /\ Goes /\ job[t].pc = "batch"
            /\ WrittenAt(job[t].to, Only(job[t].held, S))
            /\ \/ /\ r.pc = "batch" /\ r.op = job[t].op /\ r.to = job[t].to
                  /\ r.held = Only(job[t].held, Cap \ S)
               \/ /\ IsFree(r)
                  /\ Keys(Only(job[t].held, Cap \ S)) = {}
               \/ /\ r.pc = "peek" /\ r.op = job[t].op
                  /\ r.held = Only(job[t].held, Cap \ S) /\ Keys(r.held) = {}
            /\ hot' = hot
    BY <1>5, <1>a, <2>0, DecayBatchEffect
  <2>2. SUFFICES ASSUME CalmOK(job[t])
                 PROVE  /\ r.pc = "idle" => \A c \in Cap : Right(c)'
                        /\ r.pc # "idle" => r.op # "lsct" /\ CalmOK(r)'
    BY <2>1, <1>c
  <2> DEFINE h == Only(job[t].held, S)
             k == Only(job[t].held, Cap \ S)
  <2>3. /\ \A c \in Cap : h[c] = IF c \in S THEN job[t].held[c] ELSE 0
        /\ \A c \in Cap : k[c] = IF c \in S THEN 0 ELSE job[t].held[c]
        /\ Keys(k) = Keys(job[t].held) \ S
    BY <1>f, OnlyThere DEF Keys
  <2> HIDE DEF h, k
  <2>4. \A c \in Cap : IF c \in Keys(job[t].held) /\ Clear(c, job[t].to)
                       THEN job[t].held[c] = latest[c] ELSE Right(c)
    BY <2>1, <2>2 DEF CalmOK, CalmGone
  <2>x. PICK x \in LowerTier : x = job[t].to
    BY <2>0
  <2>w. \A y \in LowerTier, d \in Cap :
          lower'[y][d] = IF y = x /\ h[d] # 0 THEN h[d] ELSE lower[y][d]
    BY <2>1, <2>x DEF WrittenAt, h
  <2>5. ASSUME NEW c \in Cap PROVE Clear(c, x)' <=> Clear(c, x)
    BY <2>1, <2>w DEF Clear, LowerTier
  <2>6. ASSUME NEW c \in Cap, h[c] = 0, Right(c) PROVE Right(c)'
    BY <2>1, <2>w, <2>6, RightStays DEF Goes
  <2>7. ASSUME NEW c \in Cap, c \notin Keys(k) PROVE Right(c)'
    <3>1. CASE h[c] = 0
      BY <2>3, <2>4, <2>6, <2>7, <3>1 DEF Keys
    <3>2. CASE h[c] # 0
      <4>1. c \in Keys(job[t].held) /\ h[c] = job[t].held[c]
        BY <2>3, <3>2 DEF Keys
      <4>2. CASE Clear(c, x)
        <5>1. h[c] = latest'[c] /\ lower'[x][c] = h[c]
          BY <2>1, <2>4, <2>w, <2>x, <3>2, <4>1, <4>2 DEF Goes
        <5>2. QED
          BY <2>5, <3>2, <4>2, <5>1 DEF Right, Top, Clear, LowerTier
      <4>3. CASE ~Clear(c, x)
        <5>1. Right(c)
          BY <2>4, <2>x, <4>3
        <5>2. QED
          BY <2>1, <2>w, <4>3, <5>1 DEF Right, Top, Clear, LowerTier, Goes
      <4>4. QED
        BY <4>2, <4>3
    <3>3. QED
      BY <3>1, <3>2
  <2>8. ASSUME NEW c \in Cap, c \in Keys(k)
        PROVE  IF Clear(c, x)' THEN k[c] = latest'[c] ELSE Right(c)'
    <3>1. h[c] = 0 /\ c \in Keys(job[t].held) /\ k[c] = job[t].held[c]
      BY <2>3, <2>8
    <3>2. QED
      BY <2>1, <2>4, <2>5, <2>6, <2>x, <3>1 DEF Goes
  <2>9. CASE r.pc = "batch" /\ r.op = job[t].op /\ r.to = job[t].to /\ r.held = k
    BY <1>0, <2>7, <2>8, <2>9, <2>x DEF CalmOK, CalmHot, CalmRead, CalmGone, Removing
  <2>10. CASE IsFree(r) /\ Keys(k) = {}
    BY <2>7, <2>10 DEF IsFree
  <2>11. CASE r.pc = "peek" /\ r.op = job[t].op /\ r.held = k /\ Keys(k) = {}
    BY <1>0, <2>7, <2>11 DEF CalmOK, CalmHot, CalmRead, CalmGone, Removing
  <2>12. QED
    BY <2>1, <2>9, <2>10, <2>11 DEF k
<1>6. QED
  BY <1>1, <1>2, <1>3, <1>4, <1>5 DEF DecayStep

\* coordinator.rs get, delete: after any sequence of inserts, gets, deletes and
\* decay cycles that neither overlapped nor failed, and as long as no LSCT
\* migration ran, get finds the entry of the last insert and, after a delete,
\* nothing, for any number of tasks and ids.
THEOREM ReadsLatestProved == TierSpec => []ReadsLatest
<1>1. TierInit => TierInv /\ CalmInv
  <2>1. TierInit => CalmInv
    <3> SUFFICES ASSUME TierInit PROVE CalmInv
      OBVIOUS
    <3>1. \A c \in Cap : Right(c)
      BY NothingThere DEF TierInit, Right, Top, LowerTier
    <3>2. \A t \in Task : job[t].pc = "idle"
      BY FreeShape DEF TierInit, IsFree
    <3>3. QED
      BY <3>1, <3>2 DEF CalmInv
  <2>2. QED
    BY <2>1, TierStarts
<1>2. TierInv /\ CalmInv /\ [TierNext]_tierVars => (TierInv /\ CalmInv)'
  <2> SUFFICES ASSUME TierInv, CalmInv, [TierNext]_tierVars PROVE CalmInv'
    BY TierTypeStep
  <2>1. CASE UNCHANGED tierVars
    <3>1. \A c \in Cap : Right(c) => Right(c)'
      BY <2>1, RightStays DEF tierVars
    <3>2. UNCHANGED <<job, calm, hot, lower, latest>>
      BY <2>1 DEF tierVars
    <3>3. \A t \in Task : CalmOK(job[t]) => CalmOK(job[t])'
      <4> SUFFICES ASSUME NEW t \in Task PROVE CalmOK(job[t]) => CalmOK(job[t])'
        OBVIOUS
      <4>1. CalmHot(job[t]) => CalmHot(job[t])'
        BY <3>1, <3>2 DEF CalmHot
      <4>2. CalmRead(job[t]) => CalmRead(job[t])'
        BY <3>1, <3>2 DEF CalmRead, Clear
      <4>3. CalmGone(job[t]) => CalmGone(job[t])'
        BY <3>1, <3>2 DEF CalmGone, Clear
      <4>4. QED
        BY <4>1, <4>2, <4>3 DEF CalmOK
    <3>4. AllIdle' = AllIdle /\ \A t \in Task : IdleBut(t)' = IdleBut(t)
      BY <3>2 DEF AllIdle, IdleBut
    <3>5. QED
      BY <3>1, <3>2, <3>3, <3>4 DEF CalmInv
  <2>2. CASE TierNext
    <3>1. PICK t \in Task :
            \/ \E c \in Cap : Insert(t, c) \/ GetHot(t, c) \/ GetMiss(t, c) \/ Delete(t, c)
            \/ DecaySnapshot(t)
            \/ \E c \in Cap, from, to \in Tier : LsctStart(t, c, from, to)
            \/ HotStep(t)
            \/ Look(t) \/ TakeCopy(t) \/ RemoveOrder(t) \/ RemoveEntry(t) \/ Purge(t)
            \/ DecayStep(t)
            \/ LsctWrite(t) \/ LsctErase(t) \/ StorageError(t)
      BY <2>2, Zenon DEF TierNext, Tier
    <3>2. CASE LsctWrite(t) \/ LsctErase(t) \/ StorageError(t)
      <4>1. calm' = FALSE
        BY <3>2 DEF LsctWrite, LsctErase, StorageError
      <4>2. QED
        BY <4>1 DEF CalmInv
    <3>3. QED
      BY <3>1, <3>2, CalmBegin, CalmBeginOther, CalmStoring, CalmMove, CalmDecay
  <2>3. QED
    BY <2>1, <2>2
<1>3. CalmInv => ReadsLatest
  BY DEF CalmInv, ReadsLatest, Right
<1>4. QED
  BY <1>1, <1>2, <1>3, PTL DEF TierSpec

-----------------------------------------------------------------------------
(* Without overlapping operations the access order knows the hot entries.  *)

HotFits == order = Keys(hot) /\ Cardinality(Keys(hot)) <= Capacity

\* While a task is at j: what the order is, and the room for the new entry.
OrderAt(j) ==
  /\ Cardinality(Keys(hot)) <= Capacity
  /\ order = IF j.pc = "evicted" THEN Keys(hot) \ {j.vic}
             ELSE IF j.pc = "put" THEN Keys(hot) \cup {j.id}
             ELSE IF j.pc = "removed" THEN Keys(hot) \ {j.id} ELSE Keys(hot)
  /\ j.pc = "evicted" => j.vic \in Keys(hot)
  /\ j.pc \in {"order", "put"} => Cardinality(Keys(hot) \cup {j.id}) <= Capacity

RoomInv ==
  calm =>
    /\ AllIdle => HotFits
    /\ \A t \in Task : job[t].pc # "idle" => IdleBut(t) /\ OrderAt(job[t])

LEMMA RoomStep ==
  ASSUME TierInv, NEW t \in Task, NEW r, Becomes(t, r), calm' => IdleBut(t) /\ OrderAt(r)'
  PROVE  RoomInv'
<1>1. job'[t] = r /\ \A u \in Task \ {t} : job'[u] = job[u]
  BY BecomesThere DEF TierInv
<1> SUFFICES ASSUME calm'
             PROVE  /\ AllIdle' => HotFits'
                    /\ \A u \in Task : job'[u].pc # "idle" => IdleBut(u)' /\ OrderAt(job[u])'
  BY Zenon DEF RoomInv
<1>2. \A u \in Task : job'[u].pc # "idle" => u = t
  BY <1>1 DEF IdleBut
<1>3. IdleBut(t)' /\ OrderAt(job[t])'
  BY <1>1 DEF IdleBut
<1>4. AllIdle' => HotFits'
  BY <1>3 DEF AllIdle, HotFits, OrderAt
<1>5. QED
  BY <1>2, <1>3, <1>4

\* A task that goes on, or comes to its end.
LEMMA RoomGoes ==
  ASSUME TierInv, RoomInv, NEW t \in Task, NEW r, Becomes(t, r), job[t].pc # "idle",
         calm' = calm, OrderAt(job[t]) => OrderAt(r)'
  PROVE  RoomInv'
<1>1. calm' => IdleBut(t) /\ OrderAt(job[t])
  BY Zenon DEF RoomInv
<1>2. QED
  BY <1>1, RoomStep

Between == {"evicted", "order", "put", "removed"}

LEMMA RoomQuiet ==
  ASSUME TierInv, RoomInv, NEW t \in Task, NEW r, Becomes(t, r), job[t].pc # "idle",
         calm' = calm, UNCHANGED <<hot, order>>,
         job[t].pc \notin Between, r.pc \notin Between
  PROVE  RoomInv'
<1>1. Keys(hot)' = Keys(hot)
  BY DEF Keys
<1>2. OrderAt(job[t]) => OrderAt(r)'
  BY <1>1 DEF OrderAt, Between
<1>3. QED
  BY <1>2, RoomGoes

LEMMA RoomBegin ==
  ASSUME TierInv, RoomInv, NEW t \in Task, NEW r, Becomes(t, r), BeginsOp(t),
         order' = order \/ \E c \in Cap : hot[c] # 0 /\ order' = order \cup {c},
         r.pc \notin Between
  PROVE  RoomInv'
<1>1. SUFFICES ASSUME calm' PROVE IdleBut(t) /\ OrderAt(r)'
  BY RoomStep
<1>2. calm /\ IdleBut(t) /\ job[t].pc = "idle" /\ hot' = hot
  BY <1>1 DEF BeginsOp
<1>3. AllIdle
  BY <1>2 DEF AllIdle, IdleBut
<1>4. HotFits
  BY <1>2, <1>3 DEF RoomInv
<1>5. Keys(hot)' = Keys(hot) /\ order' = Keys(hot)
  BY <1>2, <1>4 DEF Keys, HotFits
<1>6. QED
  BY <1>2, <1>4, <1>5 DEF OrderAt, HotFits, Between

LEMMA KeysFinite == IsFiniteSet(Keys(hot))
<1>1. Keys(hot) \subseteq Cap
  BY DEF Keys
<1>2. QED
  BY <1>1, FS_Subset, TieredAssumption

LEMMA RoomStoring ==
  ASSUME TierInv, RoomInv, NEW t \in Task, HotStep(t)
  PROVE  RoomInv'
<1>a. /\ Shape(job[t]) /\ CarryOK(job[t]) /\ StoresOK
  BY AtTask
<1>f. job[t].id \in Cap /\ job[t].vic \in Cap /\ Capacity \in Nat \ {0}
  BY <1>a, ShapeFields, TieredAssumption
<1>n. IsFiniteSet(Keys(hot)) /\ Cardinality(Keys(hot)) \in Nat
  BY KeysFinite, FS_CardinalityType
<1>1. CASE HotLock(t)
  <2>1. PICK r : /\ Becomes(t, r) /\ Goes /\ job[t].pc = "hot" /\ Carries(r, job[t])
                 /\ r.pc \in {"evict", "order"}
                 /\ r.pc = "order" => hot[r.id] # 0 \/ ~(Cardinality(Keys(hot)) >= Capacity)
                 /\ UNCHANGED <<hot, order>>
    BY <1>1, <1>a, HotLockEffect
  <2>2. Keys(hot)' = Keys(hot) /\ r.id = job[t].id /\ calm' = calm
    BY <2>1 DEF Keys, Carries, Goes
  <2>3. ASSUME r.pc = "order", Cardinality(Keys(hot)) <= Capacity
        PROVE  Cardinality(Keys(hot) \cup {r.id}) <= Capacity
    <3>1. CASE hot[r.id] # 0
      <4>1. Keys(hot) \cup {r.id} = Keys(hot)
        BY <2>2, <3>1, <1>f DEF Keys
      <4>2. QED
        BY <2>3, <4>1
    <3>2. CASE hot[r.id] = 0
      <4>1. r.id \notin Keys(hot)
        BY <3>2 DEF Keys
      <4>2. Cardinality(Keys(hot) \cup {r.id}) = Cardinality(Keys(hot)) + 1
        BY <4>1, <1>n, FS_AddElement
      <4>3. QED
        BY <2>1, <2>3, <3>2, <4>2, <1>n, <1>f
    <3>3. QED
      BY <3>1, <3>2
  <2>4. OrderAt(job[t]) => OrderAt(r)'
    BY <2>1, <2>2, <2>3 DEF OrderAt
  <2>5. QED
    BY <2>1, <2>2, <2>4, RoomGoes
<1>2. CASE HotEvict(t)
  <2>1. PICK r : /\ Becomes(t, r) /\ Goes /\ job[t].pc = "evict" /\ Carries(r, job[t])
                 /\ \/ /\ r.pc = "order" /\ order' = order
                       /\ Keys(hot) = {} \/ order = {}
                    \/ r.pc = "evicted" /\ r.vic \in order /\ order' = order \ {r.vic}
                 /\ hot' = hot
    BY <1>2, <1>a, HotEvictEffect DEF StoresOK
  <2>2. Keys(hot)' = Keys(hot) /\ calm' = calm
    BY <2>1 DEF Keys, Goes
  <2>3. ASSUME Keys(hot) = {} PROVE Cardinality(Keys(hot) \cup {r.id}) <= Capacity
    <3>1. Cardinality(Keys(hot) \cup {r.id}) = 1
      BY <2>3, FS_Singleton
    <3>2. QED
      BY <3>1, <1>f
  <2>4. OrderAt(job[t]) => OrderAt(r)'
    BY <2>1, <2>2, <2>3 DEF OrderAt
  <2>5. QED
    BY <2>1, <2>2, <2>4, RoomGoes
<1>3. CASE HotEvicted(t)
  <2>1. PICK r : /\ Becomes(t, r) /\ Goes /\ job[t].pc = "evicted" /\ r.pc = "order"
                 /\ r.id = job[t].id
                 /\ \A c \in Cap : hot'[c] = IF c = job[t].vic THEN 0 ELSE hot[c]
                 /\ order' = order
    BY <1>3, <1>a, HotEvictedEffect
  <2>2. SUFFICES ASSUME OrderAt(job[t]) PROVE OrderAt(r)'
    BY <2>1, RoomGoes DEF Goes
  <2> DEFINE v == job[t].vic
             n == Cardinality(Keys(hot))
  <2>3. v \in Keys(hot) /\ order = Keys(hot) \ {v} /\ n <= Capacity
    BY <2>1, <2>2 DEF OrderAt
  <2>4. Keys(hot)' = Keys(hot) \ {v}
    BY <2>1 DEF Keys
  <2>5. IsFiniteSet(Keys(hot) \ {v}) /\ Cardinality(Keys(hot) \ {v}) = n - 1
    BY <2>3, <1>n, FS_RemoveElement
  <2>6. \/ Cardinality((Keys(hot) \ {v}) \cup {r.id}) = n - 1
        \/ Cardinality((Keys(hot) \ {v}) \cup {r.id}) = n
    <3>1. Cardinality((Keys(hot) \ {v}) \cup {r.id}) = n - 1 \/
          Cardinality((Keys(hot) \ {v}) \cup {r.id}) = n - 1 + 1
      BY <2>5, FS_AddElement
    <3>2. QED
      BY <3>1, <1>n
  <2> HIDE DEF v, n
  <2>7. n - 1 <= Capacity
    BY <2>3, <1>n, <1>f DEF n
  <2>8. QED
    BY <2>1, <2>3, <2>4, <2>5, <2>6, <2>7 DEF OrderAt
<1>4. CASE HotOrder(t)
  <2>1. PICK r : /\ Becomes(t, r) /\ Goes /\ job[t].pc = "order" /\ Carries(r, job[t])
                 /\ r.pc = "put" /\ order' = order \cup {r.id} /\ hot' = hot
    BY <1>4, <1>a, HotOrderEffect
  <2>2. Keys(hot)' = Keys(hot) /\ r.id = job[t].id /\ calm' = calm
    BY <2>1 DEF Keys, Carries, Goes
  <2>3. OrderAt(job[t]) => OrderAt(r)'
    BY <2>1, <2>2 DEF OrderAt
  <2>4. QED
    BY <2>1, <2>2, <2>3, RoomGoes
<1>5. CASE HotPut(t)
  <2>1. PICK r : /\ Becomes(t, r) /\ Goes /\ job[t].pc = "put"
                 /\ HotSet(job[t].id, job[t].held[job[t].id])
                 /\ r.pc \in {"erase", "idle", "spill"} /\ order' = order
    BY <1>5, <1>a, HotPutEffect DEF IsFree
  <2>2. Keys(hot)' = Keys(hot) \cup {job[t].id} /\ calm' = calm
    BY <2>1, <1>a, <1>f DEF Keys, Goes, HotSet, CarryOK
  <2>3. OrderAt(job[t]) => OrderAt(r)'
    BY <2>1, <2>2 DEF OrderAt
  <2>4. QED
    BY <2>1, <2>2, <2>3, RoomGoes
<1>6. CASE Spill(t)
  <2>1. PICK r : /\ Becomes(t, r) /\ Goes /\ job[t].pc = "spill" /\ r.pc \in {"erase", "idle"}
                 /\ UNCHANGED <<hot, order>>
    BY <1>6, <1>a, SpillEffect DEF IsFree
  <2>2. QED
    BY <2>1, RoomQuiet DEF Between, Goes
<1>7. QED
  BY <1>1, <1>2, <1>3, <1>4, <1>5, <1>6 DEF HotStep

LEMMA RoomMove ==
  ASSUME TierInv, RoomInv, NEW t \in Task,
         Look(t) \/ TakeCopy(t) \/ RemoveOrder(t) \/ RemoveEntry(t) \/ Purge(t) \/ DecayStep(t)
  PROVE  RoomInv'
<1>a. /\ Shape(job[t]) /\ CarryOK(job[t]) /\ RemovalOK(job[t], excused) /\ StoresOK
  BY AtTask
<1>p. /\ job[t].pc \in {"look", "take", "purge"} => job[t].from \in LowerTier
      /\ job[t].pc \in {"meta", "peek", "unlink"} => job[t].from \in {"warm", "cold"}
      /\ job[t].pc = "batch" => job[t].to \in LowerTier
  BY <1>a DEF CarryOK
<1>n. IsFiniteSet(Keys(hot)) /\ Cardinality(Keys(hot)) \in Nat
  BY KeysFinite, FS_CardinalityType
<1>1. CASE Look(t) \/ TakeCopy(t) \/ Purge(t)
  <2>1. PICK r : /\ Becomes(t, r) /\ Goes /\ job[t].pc \in {"look", "take", "purge"}
                 /\ r.pc \in {"idle", "look", "take", "hot", "purge"}
                 /\ UNCHANGED <<hot, order>>
    BY <1>1, <1>a, <1>p, LookEffect, TakeCopyEffect, PurgeEffect
    DEF IsFree, Look, TakeCopy, Purge
  <2>2. QED
    BY <2>1, RoomQuiet DEF Between, Goes
<1>2. CASE RemoveOrder(t)
  <2>1. PICK r : /\ Becomes(t, r) /\ Goes /\ job[t].pc = "remove" /\ r.pc = "removed"
                 /\ order' = order \ {r.id} /\ hot' = hot
    BY <1>2, <1>a, RemoveOrderEffect
  <2>2. Keys(hot)' = Keys(hot) /\ calm' = calm
    BY <2>1 DEF Keys, Goes
  <2>3. OrderAt(job[t]) => OrderAt(r)'
    BY <2>1, <2>2 DEF OrderAt
  <2>4. QED
    BY <2>1, <2>2, <2>3, RoomGoes
<1>3. CASE RemoveEntry(t)
  <2>1. PICK r : /\ Becomes(t, r) /\ Goes /\ job[t].pc = "removed" /\ HotSet(job[t].id, 0)
                 /\ r.pc \in {"remove", "purge", "batch", "idle"} /\ order' = order
    BY <1>3, <1>a, RemoveEntryEffect DEF IsFree
  <2>2. Keys(hot)' = Keys(hot) \ {job[t].id} /\ calm' = calm
    BY <2>1 DEF Keys, Goes, HotSet
  <2>3. Cardinality(Keys(hot)') <= Cardinality(Keys(hot)) /\ Cardinality(Keys(hot)') \in Nat
    <3>1. Keys(hot)' \subseteq Keys(hot)
      BY <2>2
    <3>2. QED
      BY <3>1, <1>n, FS_Subset, FS_CardinalityType
  <2>4. Cardinality(Keys(hot)) <= Capacity => Cardinality(Keys(hot)') <= Capacity
    BY <2>3, <1>n, TieredAssumption
  <2>5. OrderAt(job[t]) => OrderAt(r)'
    BY <2>1, <2>2, <2>4 DEF OrderAt
  <2>6. QED
    BY <2>1, <2>2, <2>5, RoomGoes
<1>4. CASE DecayStep(t)
  <2>1. \E r : /\ Becomes(t, r) /\ Goes
               /\ job[t].pc \in {"meta", "filter", "peek", "unlink", "batch"}
               /\ r.pc \notin Between /\ UNCHANGED <<hot, order>>
    <3>1. CASE DecayMeta(t) \/ DecayFilter(t)
      BY <3>1, <1>a, <1>p, DecayMetaEffect, DecayFilterEffect DEF Between, DecayMeta
    <3>2. CASE DecayPeek(t) \/ DecayUnlink(t)
      BY <3>2, <1>a, <1>p, DecayPeekEffect, DecayUnlinkEffect
      DEF Between, DecayPeek, DecayUnlink, IsFree
    <3>3. CASE DecayBatch(t)
      BY <3>3, <1>a, <1>p, DecayBatchEffect DEF Between, DecayBatch, IsFree
    <3>4. QED
      BY <1>4, <3>1, <3>2, <3>3 DEF DecayStep
  <2>2. QED
    BY <2>1, RoomQuiet DEF Between, Goes
<1>5. QED
  BY <1>1, <1>2, <1>3, <1>4

\* hot.rs insert, evict_lru, remove and coordinator.rs: for any capacity, while
\* no two operations overlap the access order knows exactly the hot entries, an
\* insert finds a victim and the hot tier keeps within its capacity.
THEOREM HotWithinCapacityProved == TierSpec => []HotWithinCapacity
<1>1. TierInit => TierInv /\ RoomInv
  <2> SUFFICES ASSUME TierInit PROVE RoomInv
    BY TierStarts
  <2>1. Keys(hot) = {} /\ order = {} /\ Cardinality(Keys(hot)) = 0
    BY NothingThere, FS_EmptySet DEF TierInit
  <2>2. \A t \in Task : job[t].pc = "idle"
    BY FreeShape DEF TierInit, IsFree
  <2>3. QED
    BY <2>1, <2>2, TieredAssumption DEF RoomInv, HotFits
<1>2. TierInv /\ RoomInv /\ [TierNext]_tierVars => (TierInv /\ RoomInv)'
  <2> SUFFICES ASSUME TierInv, RoomInv, [TierNext]_tierVars PROVE RoomInv'
    BY TierTypeStep
  <2>1. CASE UNCHANGED tierVars
    BY <2>1 DEF RoomInv, HotFits, OrderAt, AllIdle, IdleBut, Keys, tierVars
  <2>2. CASE TierNext
    <3>1. PICK t \in Task :
            \/ \E c \in Cap : Insert(t, c) \/ GetHot(t, c) \/ GetMiss(t, c) \/ Delete(t, c)
            \/ DecaySnapshot(t)
            \/ \E c \in Cap, from, to \in Tier : LsctStart(t, c, from, to)
            \/ HotStep(t)
            \/ Look(t) \/ TakeCopy(t) \/ RemoveOrder(t) \/ RemoveEntry(t) \/ Purge(t)
            \/ DecayStep(t)
            \/ LsctWrite(t) \/ LsctErase(t) \/ StorageError(t)
      BY <2>2, Zenon DEF TierNext, Tier
    <3>s. StoresOK
      BY DEF TierInv
    <3>2. CASE LsctWrite(t) \/ LsctErase(t) \/ StorageError(t)
      <4>1. calm' = FALSE
        BY <3>2 DEF LsctWrite, LsctErase, StorageError
      <4>2. QED
        BY <4>1 DEF RoomInv
    <3>3. CASE \/ \E c \in Cap : Insert(t, c) \/ GetHot(t, c) \/ GetMiss(t, c) \/ Delete(t, c)
               \/ DecaySnapshot(t)
               \/ \E c \in Cap, from, to \in Tier : LsctStart(t, c, from, to)
      <4>1. PICK r : /\ Becomes(t, r) /\ BeginsOp(t)
                     /\ order' = order \/ \E c \in Cap : hot[c] # 0 /\ order' = order \cup {c}
                     /\ r.pc \notin Between
        <5>1. ASSUME NEW c \in Cap, Insert(t, c) \/ GetMiss(t, c) \/ Delete(t, c)
              PROVE  \E r : Becomes(t, r) /\ BeginsOp(t) /\ order' = order /\ r.pc \notin Between
          BY <5>1, <3>s, InsertEffect, GetMissEffect, DeleteEffect DEF Between
        <5>2. ASSUME NEW c \in Cap, GetHot(t, c)
              PROVE  \E r : /\ Becomes(t, r) /\ BeginsOp(t) /\ hot[c] # 0
                            /\ order' = order \cup {c} /\ r.pc \notin Between
          BY <5>2, GetHotEffect DEF Between, IsFree, GetHot
        <5>3. ASSUME DecaySnapshot(t) \/ \E c \in Cap, from, to \in Tier : LsctStart(t, c, from, to)
              PROVE  \E r : Becomes(t, r) /\ BeginsOp(t) /\ order' = order /\ r.pc \notin Between
          BY <5>3, <3>s, SnapshotEffect, LsctStartEffect DEF Between
        <5>4. QED
          BY <3>3, <5>1, <5>2, <5>3
      <4>2. QED
        BY <4>1, RoomBegin
    <3>4. QED
      BY <3>1, <3>2, <3>3, RoomStoring, RoomMove
  <2>3. QED
    BY <2>1, <2>2
<1>3. RoomInv => HotWithinCapacity
  BY DEF RoomInv, HotWithinCapacity, HotFits
<1>4. QED
  BY <1>1, <1>2, <1>3, PTL DEF TierSpec

-----------------------------------------------------------------------------
(* The insert lock.                                                        *)

Locked == {"evict", "evicted", "order", "put"}

LEMMA LockStep ==
  ASSUME TierInv, LockOK, [TierNext]_tierVars
  PROVE  LockOK'
<1>s. StoresOK /\ JobsShaped
  BY DEF TierInv
<1>k. ASSUME NEW t \in Task, NEW r, Becomes(t, r), insertLock' = insertLock,
             r.pc \in Locked <=> job[t].pc \in Locked
      PROVE  LockOK'
  <2>1. job'[t] = r /\ \A u \in Task \ {t} : job'[u] = job[u]
    BY <1>s, <1>k, BecomesThere
  <2>2. QED
    BY <1>k, <2>1 DEF LockOK, Locked
<1>1. CASE UNCHANGED tierVars
  BY <1>1 DEF LockOK, tierVars
<1>2. CASE TierNext
  <2>1. PICK t \in Task :
          \/ \E c \in Cap : Insert(t, c) \/ GetHot(t, c) \/ GetMiss(t, c) \/ Delete(t, c)
          \/ DecaySnapshot(t)
          \/ \E c \in Cap, from, to \in Tier : LsctStart(t, c, from, to)
          \/ HotStep(t)
          \/ Look(t) \/ TakeCopy(t) \/ RemoveOrder(t) \/ RemoveEntry(t) \/ Purge(t)
          \/ DecayStep(t)
          \/ LsctWrite(t) \/ LsctErase(t) \/ StorageError(t)
    BY <1>2, Zenon DEF TierNext, Tier
  <2>a. Shape(job[t]) /\ CarryOK(job[t]) /\ RemovalOK(job[t], excused)
    BY AtTask
  <2>2. CASE \/ \E c \in Cap : Insert(t, c) \/ GetHot(t, c) \/ GetMiss(t, c) \/ Delete(t, c)
             \/ DecaySnapshot(t)
             \/ \E c \in Cap, from, to \in Tier : LsctStart(t, c, from, to)
    <3>1. PICK r : /\ Becomes(t, r) /\ job[t].pc = "idle" /\ insertLock' = insertLock
                   /\ r.pc \in {"idle", "hot", "look", "remove", "meta", "write"}
      BY <2>2, <1>s, InsertEffect, GetHotEffect, GetMissEffect, DeleteEffect, SnapshotEffect,
         LsctStartEffect DEF BeginsOp, IsFree
    <3>2. QED
      BY <3>1, <1>k DEF Locked
  <2>3. CASE HotLock(t)
    <3>1. PICK r : /\ Becomes(t, r) /\ r.pc \in Locked
                   /\ insertLock = {} /\ insertLock' = {t}
      BY <2>3, <2>a, HotLockEffect DEF Locked
    <3>2. job'[t] = r /\ \A u \in Task \ {t} : job'[u] = job[u]
      BY <1>s, <3>1, BecomesThere
    <3>3. QED
      BY <3>1, <3>2 DEF LockOK, Locked
  <2>4. CASE HotPut(t)
    <3>1. PICK r : /\ Becomes(t, r) /\ job[t].pc = "put" /\ r.pc \notin Locked
                   /\ insertLock' = {}
      BY <2>4, <1>s, <2>a, HotPutEffect DEF Locked, IsFree
    <3>2. job'[t] = r /\ \A u \in Task \ {t} : job'[u] = job[u]
      BY <1>s, <3>1, BecomesThere
    <3>3. \A u \in Task \ {t} : job[u].pc \notin Locked
      BY <3>1 DEF LockOK, Locked
    <3>4. QED
      BY <3>1, <3>2, <3>3 DEF LockOK, Locked
  <2>5. CASE HotEvict(t) \/ HotEvicted(t) \/ HotOrder(t) \/ Spill(t)
    <3>1. PICK r : /\ Becomes(t, r) /\ insertLock' = insertLock
                   /\ r.pc \in Locked <=> job[t].pc \in Locked
      BY <2>5, <1>s, <2>a, HotEvictEffect, HotEvictedEffect, HotOrderEffect, SpillEffect
      DEF Locked, IsFree, StoresOK
    <3>2. QED
      BY <3>1, <1>k
  <2>6. CASE Look(t) \/ TakeCopy(t) \/ RemoveOrder(t) \/ RemoveEntry(t) \/ Purge(t)
    <3>1. job[t].pc \in {"look", "take", "purge"} => job[t].from \in LowerTier
      BY <2>a DEF CarryOK
    <3>2. PICK r : /\ Becomes(t, r) /\ insertLock' = insertLock
                   /\ r.pc \notin Locked /\ job[t].pc \notin Locked
      BY <2>6, <1>s, <2>a, <3>1, LookEffect, TakeCopyEffect, RemoveOrderEffect,
         RemoveEntryEffect, PurgeEffect DEF Locked, IsFree, Look, TakeCopy, Purge
    <3>3. QED
      BY <3>2, <1>k
  <2>7. CASE DecayStep(t)
    <3>1. /\ job[t].pc \in {"meta", "peek", "unlink"} => job[t].from \in {"warm", "cold"}
          /\ job[t].pc = "batch" => job[t].to \in LowerTier
      BY <2>a DEF CarryOK
    <3>2. PICK r : /\ Becomes(t, r) /\ insertLock' = insertLock
                   /\ r.pc \notin Locked /\ job[t].pc \notin Locked
      <4>1. CASE DecayMeta(t) \/ DecayFilter(t)
        BY <4>1, <2>a, <3>1, DecayMetaEffect, DecayFilterEffect DEF Locked, DecayMeta
      <4>2. CASE DecayPeek(t) \/ DecayUnlink(t)
        BY <4>2, <1>s, <2>a, <3>1, DecayPeekEffect, DecayUnlinkEffect
        DEF Locked, DecayPeek, DecayUnlink, IsFree
      <4>3. CASE DecayBatch(t)
        BY <4>3, <1>s, <2>a, <3>1, DecayBatchEffect DEF Locked, DecayBatch, IsFree
      <4>4. QED
        BY <2>7, <4>1, <4>2, <4>3 DEF DecayStep
    <3>3. QED
      BY <3>2, <1>k
  <2>8. CASE LsctWrite(t) \/ LsctErase(t) \/ StorageError(t)
    <3>1. /\ job[t].pc = "write" => job[t].to \in LowerTier
          /\ job[t].pc = "erase" => job[t].from \in LowerTier
      BY <2>a DEF CarryOK
    <3>2. PICK r : /\ Becomes(t, r) /\ insertLock' = insertLock
                   /\ r.pc \notin Locked /\ job[t].pc \notin Locked
      <4>1. CASE LsctWrite(t) \/ LsctErase(t)
        BY <4>1, <1>s, <2>a, <3>1, LsctWriteEffect, LsctEraseEffect
        DEF Locked, LsctWrite, LsctErase, IsFree
      <4>2. CASE StorageError(t)
        BY <4>2, FreeShape DEF StorageError, Go, Becomes, IsFree, Locked
      <4>3. QED
        BY <2>8, <4>1, <4>2
    <3>3. QED
      BY <3>2, <1>k
  <2>9. QED
    BY <2>1, <2>2, <2>3, <2>4, <2>5, <2>6, <2>7, <2>8 DEF HotStep
<1>3. QED
  BY <1>1, <1>2

\* hot.rs, coordinator.rs: the type invariant, with the insert lock held by at
\* most one task and exactly by the one between the capacity check and the write.
THEOREM TierTypesProved == TierSpec => []TierTypeOK
<1>1. TierInit => TierInv /\ CalmType /\ LockOK
  <2>1. TierInit => LockOK
    BY FreeShape DEF TierInit, LockOK, IsFree
  <2>2. QED
    BY <2>1, TierStarts
<1>2. TierInv /\ CalmType /\ LockOK /\ [TierNext]_tierVars => (TierInv /\ CalmType /\ LockOK)'
  <2> SUFFICES ASSUME TierInv, CalmType, LockOK, [TierNext]_tierVars PROVE CalmType'
    BY TierTypeStep, LockStep
  <2>1. calm' = calm \/ (\E t \in Task : calm' = (calm /\ IdleBut(t))) \/ calm' = FALSE
    <3>1. CASE UNCHANGED tierVars
      BY <3>1 DEF tierVars
    <3>2. CASE TierNext
      <4>1. PICK t \in Task :
              \/ \E c \in Cap : Insert(t, c) \/ GetHot(t, c) \/ GetMiss(t, c) \/ Delete(t, c)
              \/ DecaySnapshot(t)
              \/ \E c \in Cap, from, to \in Tier : LsctStart(t, c, from, to)
              \/ HotStep(t)
              \/ Look(t) \/ TakeCopy(t) \/ RemoveOrder(t) \/ RemoveEntry(t) \/ Purge(t)
              \/ DecayStep(t)
              \/ LsctWrite(t) \/ LsctErase(t) \/ StorageError(t)
        BY <3>2, Zenon DEF TierNext, Tier
      <4>2. ASSUME NEW c \in Cap, Insert(t, c) \/ GetHot(t, c) \/ GetMiss(t, c) \/ Delete(t, c)
            PROVE  calm' = (calm /\ IdleBut(t))
        BY <4>2 DEF Insert, GetHot, GetMiss, Delete, Starts
      <4>3. CASE DecaySnapshot(t) \/ \E c \in Cap, from, to \in Tier : LsctStart(t, c, from, to)
        BY <4>3 DEF DecaySnapshot, LsctStart, Starts
      <4>4. CASE HotStep(t) \/ Look(t) \/ TakeCopy(t)
        BY <4>4 DEF HotStep, HotLock, HotEvict, HotEvicted, HotOrder, HotPut, Spill, Look, TakeCopy
      <4>5. CASE RemoveOrder(t) \/ RemoveEntry(t) \/ Purge(t) \/ DecayStep(t)
        BY <4>5 DEF RemoveOrder, RemoveEntry, Purge, DecayStep, DecayMeta, DecayFilter, DecayPeek,
                    DecayUnlink, DecayBatch
      <4>6. CASE LsctWrite(t) \/ LsctErase(t) \/ StorageError(t)
        BY <4>6 DEF LsctWrite, LsctErase, StorageError
      <4>7. QED
        BY <4>1, <4>2, <4>3, <4>4, <4>5, <4>6
    <3>3. QED
      BY <3>1, <3>2
  <2>2. QED
    BY <2>1, Zenon DEF CalmType
<1>3. TierInv /\ CalmType /\ LockOK => TierTypeOK
  <2> SUFFICES ASSUME TierInv, CalmType, LockOK PROVE TierTypeOK
    OBVIOUS
  <2>1. Cardinality(insertLock) <= 1
    <3>1. CASE insertLock = {}
      BY <3>1, FS_EmptySet
    <3>2. CASE insertLock # {}
      <4>1. PICK t : insertLock = {t}
        BY <3>2 DEF LockOK
      <4>2. QED
        BY <4>1, FS_Singleton
    <3>3. QED
      BY <3>1, <3>2
  <2>2. \A t \in Task :
          /\ (t \in insertLock) <=> (job[t].pc \in {"evict", "evicted", "order", "put"})
          /\ job[t].held \in Entries
          /\ job[t].pc \in {"hot", "evict", "evicted", "order", "put", "take", "write"}
               => job[t].held[job[t].id] # 0
          /\ job[t].pc = "idle" => job[t] = Free
    BY AtTask, ShapeFields DEF LockOK, CarryOK
  <2>3. QED
    BY <2>1, <2>2 DEF TierTypeOK, TierInv, StoresOK, CalmType
<1>4. QED
  BY <1>1, <1>2, <1>3, PTL DEF TierSpec

-----------------------------------------------------------------------------
(***************************************************************************)
(* Proofs about one vendor channel of the gateway, for every number of     *)
(* tasks, keys, attempts and every limit and threshold.                    *)
(*                                                                         *)
(* The invariant has three independent parts: the coalescer (who leads,    *)
(* who waits), the cost guard, and the circuit breaker; each has its own   *)
(* section, after the types.                                               *)
(***************************************************************************)


\* The steps of invoke up to the call of the vendor.
BeforeSend == {"check", "claim", "refuse", "probe", "allow", "half", "send"}

\* A call that is still to be sent has an attempt left, and every call that is
\* under way has a key.
AttemptLeft ==
    \A i \in Invoker :
        /\ invoke[i].pc \in BeforeSend => invoke[i].tries < Attempts
        /\ invoke[i].pc # "idle" => invoke[i].key \in Prompt

\* While the token is valid, a call on its way to the vendor has its entry in
\* flight.
LeaderHasEntry ==
    token => \A i \in Invoker : invoke[i].pc \in Leads => inflight[KeyOf(i)] # Absent

CoalescerInv == LeaderHasEntry /\ OneCallPerKey /\ NoWaiterForgotten

\* A call that lost the claim for the report knows that it was claimed.
ProbeAfterReport ==
    \A i \in Invoker : At(i, "probe") => reported

GuardInv == ProbeAfterReport /\ OverrunAnnounced

\* The consecutive failures are failures, and whoever is about to open the
\* circuit has seen enough of them, now or when the circuit was half-open.
TripEarned ==
    /\ failures <= failed
    /\ \A i \in Invoker : invoke[i].half \/ At(i, "trip") => failed >= Threshold

BreakerInv == TripEarned /\ BreakerEarned

GatewayInv == GatewayTypeOK /\ AttemptLeft /\ CoalescerInv /\ GuardInv /\ BreakerInv

-----------------------------------------------------------------------------
(* Types.                                                                  *)

CallType == [pc : Leads \cup {"idle", "wait", "send_out"}, key : Prompt \cup {NoKey},
             tries : 0..Attempts, half : BOOLEAN, probe : BOOLEAN, taken : SUBSET Invoker]

CallsOK    == invoke \in [Invoker -> CallType]
EntriesOK  == inflight \in [Prompt -> {Absent} \cup SUBSET Invoker]
FlagsOK    == token \in BOOLEAN /\ reported \in BOOLEAN
CountersOK ==
    /\ spent \in Nat /\ openUntil \in {Never} \cup Nat
    /\ circuit \in {"closed", "open", "half"}
    /\ failures \in Nat /\ openedAt \in Nat /\ failed \in Nat
    /\ clock \in 0..MaxClock /\ invokes \in 0..MaxInvokes

\* The type invariant is its parts.
LEMMA TypeParts ==
    /\ GatewayTypeOK <=> CallsOK /\ EntriesOK /\ FlagsOK /\ CountersOK
    /\ GatewayTypeOK' <=> CallsOK' /\ EntriesOK' /\ FlagsOK' /\ CountersOK'
BY DEF GatewayTypeOK, CallsOK, EntriesOK, FlagsOK, CountersOK, CallType

\* The record of a task that is not in invoke.
LEMMA NoCallType == NoCallOf \in CallType
BY GatewayAssumption DEF NoCallOf, CallType

\* The record of a call that has just begun.
LEMMA FreshCall ==
    ASSUME NEW k \in Prompt, NEW pc \in Leads \cup {"wait"}
    PROVE  LET call == [NoCallOf EXCEPT !.pc = pc, !.key = k]
           IN  /\ call \in CallType /\ call.pc = pc /\ call.key = k
               /\ call.tries = 0 /\ call.taken = {} /\ call.half = FALSE /\ call.probe = FALSE
<1> DEFINE call == [NoCallOf EXCEPT !.pc = pc, !.key = k]
<1>1. /\ call \in CallType /\ call.pc = pc /\ call.key = k
      /\ call.tries = NoCallOf.tries /\ call.taken = NoCallOf.taken
      /\ call.half = NoCallOf.half /\ call.probe = NoCallOf.probe
  BY NoCallType DEF CallType
<1>2. /\ NoCallOf.tries = 0 /\ NoCallOf.taken = {} /\ NoCallOf.half = FALSE
      /\ NoCallOf.probe = FALSE
  BY DEF NoCallOf
<1>3. QED
  BY <1>1, <1>2

\* What join writes: one fresh call, which leads or waits.
LEMMA InvokeCall ==
    ASSUME NEW i \in Invoker, NEW k \in Prompt, Invoke(i, k)
    PROVE  \E call \in CallType :
              /\ invoke' = [invoke EXCEPT ![i] = call]
              /\ call.pc \in {"check", "wait"}
              /\ call.half = FALSE /\ call.probe = FALSE
<1>1. "check" \in Leads \cup {"wait"} /\ "wait" \in Leads \cup {"wait"}
  BY DEF Leads
<1>2. QED
  <2>1. CASE invoke' = [invoke EXCEPT ![i] = [NoCallOf EXCEPT !.pc = "check", !.key = k]]
    BY <1>1, <2>1, FreshCall
  <2>2. CASE invoke' = [invoke EXCEPT ![i] = [NoCallOf EXCEPT !.pc = "wait", !.key = k]]
    BY <1>1, <2>2, FreshCall
  <2>3. QED
    BY <2>1, <2>2 DEF Invoke

\* The initial state satisfies the invariant.
LEMMA GatewayInitInv == GatewayInit => GatewayInv
<1> SUFFICES ASSUME GatewayInit PROVE GatewayInv
  OBVIOUS
<1> USE GatewayAssumption DEF GatewayInit
<1>1. CallsOK /\ EntriesOK
  BY NoCallType DEF CallsOK, EntriesOK
<1>2. FlagsOK
  BY DEF FlagsOK
<1>3. CountersOK
  BY DEF CountersOK
<1>4. AttemptLeft
  BY DEF AttemptLeft, BeforeSend, NoCallOf
<1>5. CoalescerInv
  BY DEF CoalescerInv, LeaderHasEntry, OneCallPerKey, NoWaiterForgotten, Leads, At, NoCallOf
<1>6. GuardInv /\ BreakerInv
  BY DEF GuardInv, ProbeAfterReport, OverrunAnnounced, BreakerInv, TripEarned, BreakerEarned, At,
         NoCallOf
<1>7. QED
  BY <1>1, <1>2, <1>3, <1>4, <1>5, <1>6, TypeParts DEF GatewayInv

\* The counters stay numbers and within their bounds.
LEMMA CountersStep ==
    ASSUME CountersOK, GatewayNext
    PROVE  CountersOK'
<1> USE GatewayAssumption DEF CountersOK, costGuard, channel, rest
<1>1. ASSUME NEW i \in Invoker, NEW k \in Prompt, Invoke(i, k)
      PROVE  CountersOK'
  BY <1>1 DEF Invoke
<1>2. ASSUME NEW i \in Invoker, GiveUp(i) \/ Complete(i) \/ SendOut(i) \/ Fail(i) \/ CheckCost(i)
      PROVE  CountersOK'
  BY <1>2 DEF GiveUp, Complete, SendOut, Fail, CheckCost
<1>3. ASSUME NEW i \in Invoker, ClaimReport(i) \/ Reopen(i) \/ Account(i)
      PROVE  CountersOK'
  BY <1>3 DEF ClaimReport, Reopen, Account
<1>4. ASSUME NEW i \in Invoker, Allow(i) \/ HalfOpen(i) \/ Send(i) \/ Add(i) \/ Trip(i)
      PROVE  CountersOK'
  BY <1>4 DEF Allow, HalfOpen, Send, Add, Trip
<1>5. ASSUME NEW i \in Invoker, Zero(i) \/ Close(i)
      PROVE  CountersOK'
  BY <1>5 DEF Zero, Close
<1>6. CASE Later \/ Revoke
  BY <1>6 DEF Later, Revoke
<1>7. QED
  BY <1>1, <1>2, <1>3, <1>4, <1>5, <1>6 DEF GatewayNext

\* The two flags stay flags; nothing revalidates the token or takes back the
\* claim for the report.
LEMMA FlagsStep ==
    ASSUME FlagsOK, GatewayNext
    PROVE  FlagsOK' /\ (token' => token) /\ (reported => reported')
<1> USE DEF FlagsOK, costGuard, channel, rest
<1>1. CASE UNCHANGED <<token, reported>>
  BY <1>1
<1>2. ASSUME NEW i \in Invoker, ClaimReport(i)
      PROVE  FlagsOK' /\ (token' => token) /\ (reported => reported')
  BY <1>2 DEF ClaimReport
<1>3. CASE Revoke
  BY <1>3 DEF Revoke
<1>4. QED
  BY <1>1, <1>2, <1>3
     DEF GatewayNext, Invoke, GiveUp, Complete, SendOut, Fail, CheckCost, Reopen, Account, Allow,
         HalfOpen, Send, Add, Trip, Zero, Close, Later

-----------------------------------------------------------------------------
(* The steps of a leader.                                                  *)

\* A step of a call that is on its way to the vendor: it goes on with its key,
\* or it is abandoned and leaves the entry behind.
LeaderStep(i) ==
    /\ invoke[i].pc \in Leads
    /\ inflight' = inflight
    /\ \E call \in CallType :
          /\ invoke' = [invoke EXCEPT ![i] = call]
          /\ \/ call = NoCallOf
             \/ /\ call.pc \in Leads /\ call.key = invoke[i].key
                /\ call.pc \in BeforeSend => call.tries < Attempts

\* Every action between join and complete is such a step.
LEMMA LeaderSteps ==
    ASSUME CallsOK, AttemptLeft, NEW i \in Invoker,
           \/ Fail(i) \/ CheckCost(i) \/ ClaimReport(i) \/ Reopen(i)
           \/ Allow(i) \/ HalfOpen(i) \/ Send(i) \/ Add(i) \/ Trip(i)
           \/ Zero(i) \/ Close(i) \/ Account(i)
    PROVE  LeaderStep(i)
<1> DEFINE To(pc) == [invoke[i] EXCEPT !.pc = pc]
<1>1. invoke[i] \in CallType
  BY DEF CallsOK
<1>2. ASSUME invoke[i].pc \in Leads, Abandon(i)
      PROVE  LeaderStep(i)
  BY <1>2, NoCallType DEF LeaderStep, Abandon, Leave
<1>3. ASSUME invoke[i].pc \in Leads, NEW pc \in Leads, GoTo(i, pc), UNCHANGED inflight,
             pc \in BeforeSend => invoke[i].tries < Attempts
      PROVE  LeaderStep(i)
  <2>1. To(pc) \in CallType /\ To(pc).pc = pc /\ To(pc).key = invoke[i].key
        /\ To(pc).tries = invoke[i].tries
    BY <1>1 DEF CallType
  <2>2. invoke' = [invoke EXCEPT ![i] = To(pc)]
    BY <1>1, <1>3 DEF GoTo, CallsOK
  <2>3. QED
    BY <1>3, <2>1, <2>2 DEF LeaderStep
<1>4. invoke[i].pc \in BeforeSend => invoke[i].tries < Attempts
  BY DEF AttemptLeft
<1>5. CASE Fail(i)
  BY <1>2, <1>5 DEF Fail, At, Leads
<1>6. CASE CheckCost(i)
  BY <1>2, <1>3, <1>4, <1>6 DEF CheckCost, At, Leads, BeforeSend
<1>7. CASE ClaimReport(i)
  BY <1>3, <1>4, <1>7 DEF ClaimReport, At, Leads, BeforeSend
<1>8. CASE Reopen(i)
  <2>1. CASE At(i, "refuse")
    BY <1>2, <1>8, <2>1 DEF Reopen, At, Leads
  <2>2. CASE ~At(i, "refuse")
    <3> DEFINE call == [invoke[i] EXCEPT !.pc = "allow", !.probe = TRUE]
    <3>1. At(i, "probe") /\ UNCHANGED inflight /\ invoke' = [invoke EXCEPT ![i] = call]
      BY <1>1, <1>8, <2>2 DEF Reopen, CallsOK
    <3>2. call \in CallType /\ call.pc = "allow" /\ call.key = invoke[i].key
          /\ call.tries = invoke[i].tries
      BY <1>1 DEF CallType, Leads
    <3>3. QED
      BY <1>4, <3>1, <3>2 DEF LeaderStep, At, Leads, BeforeSend
  <2>3. QED
    BY <2>1, <2>2
<1>9. CASE Allow(i)
  BY <1>2, <1>3, <1>4, <1>9 DEF Allow, At, Leads, BeforeSend
<1>10. CASE HalfOpen(i)
  BY <1>2, <1>3, <1>4, <1>10 DEF HalfOpen, At, Leads, BeforeSend
<1>11. CASE Send(i)
  <2> DEFINE call == [invoke[i] EXCEPT !.pc = "add", !.half = (circuit = "half"), !.tries = @ + 1]
  <2>1. CASE GoTo(i, "zero") /\ UNCHANGED inflight
    BY <1>3, <1>11, <2>1 DEF Send, At, Leads, BeforeSend
  <2>2. CASE Abandon(i)
    BY <1>2, <1>11, <2>2 DEF Send, At, Leads
  <2>3. CASE invoke' = [invoke EXCEPT ![i] = call] /\ UNCHANGED inflight
    <3>1. invoke[i].tries + 1 \in 0..Attempts
      BY <1>1, <1>4, <1>11, GatewayAssumption DEF Send, At, BeforeSend, CallType
    <3>2. call \in CallType /\ call.pc = "add" /\ call.key = invoke[i].key
      BY <1>1, <3>1 DEF CallType, Leads
    <3>3. QED
      BY <1>11, <2>3, <3>2 DEF LeaderStep, Send, At, Leads, BeforeSend
  <2>4. QED
    BY <1>1, <1>11, <2>1, <2>2, <2>3 DEF Send, CallsOK
<1>12. ASSUME Again(i), invoke[i].pc \in Leads
       PROVE  LeaderStep(i)
  BY <1>1, <1>2, <1>3, <1>12, GatewayAssumption DEF Again, Exhausted, Leads, CallType
<1>13. CASE Add(i)
  BY <1>3, <1>12, <1>13 DEF Add, At, Leads, BeforeSend
<1>14. CASE Trip(i)
  BY <1>12, <1>14 DEF Trip, At, Leads
<1>15. CASE Zero(i) \/ Close(i)
  BY <1>3, <1>15 DEF Zero, Close, At, Leads, BeforeSend
<1>16. CASE Account(i)
  BY <1>2, <1>3, <1>16 DEF Account, At, Leads, BeforeSend
<1>17. QED
  BY <1>5, <1>6, <1>7, <1>8, <1>9, <1>10, <1>11, <1>13, <1>14, <1>15, <1>16

-----------------------------------------------------------------------------
(* The coalescer.                                                          *)

\* The entry of a key that is in flight is a set of tasks.
LEMMA EntryIsTasks ==
    ASSUME EntriesOK, NEW k \in Prompt
    PROVE  /\ inflight[k] # Absent => inflight[k] \in SUBSET Invoker
           /\ Absent \notin SUBSET Invoker
BY GatewayAssumption DEF EntriesOK, Absent

\* A leader that goes on, or leaves its entry behind, disturbs nobody.
LEMMA LeaderInv ==
    ASSUME CallsOK, EntriesOK, AttemptLeft, CoalescerInv, token' => token,
           NEW i \in Invoker, LeaderStep(i)
    PROVE  CallsOK' /\ EntriesOK' /\ AttemptLeft' /\ CoalescerInv'
<1>1. PICK call \in CallType :
         /\ invoke' = [invoke EXCEPT ![i] = call]
         /\ \/ call = NoCallOf
            \/ /\ call.pc \in Leads /\ call.key = invoke[i].key
               /\ call.pc \in BeforeSend => call.tries < Attempts
  BY DEF LeaderStep
<1>2. inflight' = inflight /\ invoke[i].pc \in Leads
  BY DEF LeaderStep
<1>3. CallsOK' /\ EntriesOK'
  BY <1>1, <1>2 DEF CallsOK, EntriesOK
<1>4. AttemptLeft'
  BY <1>1, <1>2 DEF AttemptLeft, CallsOK, NoCallOf, BeforeSend, Leads
<1>5. LeaderHasEntry' /\ OneCallPerKey'
  BY <1>1, <1>2 DEF CoalescerInv, LeaderHasEntry, OneCallPerKey, CallsOK, KeyOf, NoCallOf, Leads
<1>6. NoWaiterForgotten'
  BY <1>1, <1>2 DEF CoalescerInv, NoWaiterForgotten, CallsOK, KeyOf, At, NoCallOf, Leads
<1>7. QED
  BY <1>3, <1>4, <1>5, <1>6 DEF CoalescerInv

\* join: one task leads, the others wait in its entry.
LEMMA InvokeInv ==
    ASSUME CallsOK, EntriesOK, AttemptLeft, CoalescerInv,
           NEW i \in Invoker, NEW k \in Prompt, Invoke(i, k)
    PROVE  CallsOK' /\ EntriesOK' /\ AttemptLeft' /\ CoalescerInv'
<1> DEFINE Call(pc) == [NoCallOf EXCEPT !.pc = pc, !.key = k]
<1>1. \A pc \in Leads \cup {"wait"} :
         /\ Call(pc) \in CallType /\ Call(pc).pc = pc /\ Call(pc).key = k
         /\ Call(pc).tries = 0 /\ Call(pc).taken = {}
  BY FreshCall
<1>2. token' = token /\ invoke[i].pc = "idle"
  BY DEF Invoke, At
<1> HIDE DEF Call
<1> USE DEF CoalescerInv, CallsOK, EntriesOK
<1>3. CASE ~token /\ invoke' = [invoke EXCEPT ![i] = Call("check")] /\ inflight' = inflight
  <2>1. "check" \in Leads
    BY DEF Leads
  <2>2. CallsOK' /\ EntriesOK' /\ AttemptLeft'
    BY <1>1, <1>3, <2>1, GatewayAssumption DEF AttemptLeft
  <2>3. LeaderHasEntry' /\ OneCallPerKey'
    BY <1>2, <1>3 DEF LeaderHasEntry, OneCallPerKey
  <2>4. NoWaiterForgotten'
    BY <1>1, <1>2, <1>3, <2>1 DEF NoWaiterForgotten, At, KeyOf
  <2>5. QED
    BY <2>2, <2>3, <2>4
<1>4. CASE /\ token /\ OpenToLead(k) /\ invoke' = [invoke EXCEPT ![i] = Call("check")]
           /\ inflight' = [inflight EXCEPT ![k] = {}]
  <2>1. "check" \in Leads
    BY DEF Leads
  <2>2. CallsOK' /\ EntriesOK' /\ AttemptLeft'
    BY <1>1, <1>4, <2>1, GatewayAssumption DEF AttemptLeft
  <2>3. \A j \in Invoker : invoke[j].pc \in Leads => KeyOf(j) # k
    BY <1>4 DEF LeaderHasEntry, OpenToLead
  <2>4. LeaderHasEntry'
    BY <1>1, <1>4, <2>1, <2>3 DEF LeaderHasEntry, KeyOf, Absent
  <2>5. OneCallPerKey'
    BY <1>1, <1>4, <2>1, <2>3 DEF OneCallPerKey, KeyOf
  <2>6. \A j \in Invoker : inflight[k] = Absent => j \notin inflight[k]
    BY GatewayAssumption DEF Absent
  <2>7. NoWaiterForgotten'
    BY <1>1, <1>2, <1>4, <2>1, <2>6 DEF NoWaiterForgotten, At, KeyOf, OpenToLead
  <2>8. QED
    BY <2>2, <2>4, <2>5, <2>7
<1>5. CASE /\ token /\ ~OpenToLead(k) /\ invoke' = [invoke EXCEPT ![i] = Call("wait")]
           /\ inflight' = [inflight EXCEPT ![k] = @ \cup {i}]
  <2>1. inflight[k] \in SUBSET Invoker
    BY <1>5, EntryIsTasks DEF OpenToLead
  <2>2. inflight[k] \cup {i} # Absent
    BY <2>1, GatewayAssumption DEF Absent
  <2>3. CallsOK' /\ EntriesOK' /\ AttemptLeft'
    BY <1>1, <1>5, <2>1, GatewayAssumption DEF AttemptLeft, BeforeSend
  <2>4. "wait" \notin Leads
    BY DEF Leads
  <2>5. LeaderHasEntry'
    BY <1>1, <1>5, <2>2, <2>4 DEF LeaderHasEntry, KeyOf
  <2>6. OneCallPerKey'
    BY <1>1, <1>5, <2>4 DEF OneCallPerKey, KeyOf
  <2>7. NoWaiterForgotten'
    BY <1>1, <1>2, <1>5 DEF NoWaiterForgotten, At, KeyOf, AttemptLeft
  <2>8. QED
    BY <2>3, <2>5, <2>6, <2>7
<1>6. QED
  BY <1>3, <1>4, <1>5 DEF Invoke, Call

\* A waiter that gives up leaves the lists, and nobody else does.
LEMMA GiveUpInv ==
    ASSUME CallsOK, EntriesOK, AttemptLeft, CoalescerInv, NEW i \in Invoker, GiveUp(i)
    PROVE  CallsOK' /\ EntriesOK' /\ AttemptLeft' /\ CoalescerInv'
<1> DEFINE Rest(j) == [invoke[j] EXCEPT !.taken = @ \ {i}]
<1>1. \A j \in Invoker :
         /\ Rest(j) \in CallType /\ Rest(j).pc = invoke[j].pc /\ Rest(j).key = invoke[j].key
         /\ Rest(j).tries = invoke[j].tries /\ Rest(j).taken = invoke[j].taken \ {i}
  BY DEF CallsOK, CallType
<1>2. /\ \A j \in Invoker : invoke'[j] = IF j = i THEN NoCallOf ELSE Rest(j)
      /\ invoke' = [j \in Invoker |-> invoke'[j]]
  BY DEF GiveUp
<1>3. /\ NoCallOf \in CallType /\ NoCallOf.pc = "idle"
  BY NoCallType DEF NoCallOf
<1>4. token' = token /\ invoke[i].pc = "wait"
  BY DEF GiveUp, At, rest
<1>5. inflight' = [k \in Prompt |-> inflight[k] \ {i}]
  BY DEF GiveUp
<1> HIDE DEF Rest
<1>6. CallsOK'
  BY <1>1, <1>2, <1>3 DEF CallsOK
<1>7. \A k \in Prompt : /\ inflight[k] = Absent => inflight[k] \ {i} = Absent
                        /\ inflight[k] # Absent => inflight[k] \ {i} \in SUBSET Invoker
  BY GatewayAssumption DEF EntriesOK, Absent
<1>8. EntriesOK'
  BY <1>5, <1>7 DEF EntriesOK
<1>9. AttemptLeft'
  BY <1>1, <1>2, <1>3 DEF AttemptLeft, BeforeSend
<1>10. \A j \in Invoker : invoke[j].pc \in Leads => KeyOf(j) \in Prompt
  BY DEF AttemptLeft, Leads, KeyOf
<1>11. LeaderHasEntry'
  BY <1>1, <1>2, <1>3, <1>4, <1>5, <1>7, <1>10, EntryIsTasks
     DEF CoalescerInv, LeaderHasEntry, Leads, KeyOf
<1>12. OneCallPerKey'
  BY <1>1, <1>2, <1>3, <1>4 DEF CoalescerInv, OneCallPerKey, Leads, KeyOf
<1>13. NoWaiterForgotten'
  <2> SUFFICES ASSUME NEW j \in Invoker, invoke'[j].pc = "wait"
               PROVE  \/ j \in inflight'[invoke'[j].key]
                      \/ \E m \in Invoker : invoke'[m].pc = "send_out" /\ j \in invoke'[m].taken
    BY DEF NoWaiterForgotten, At, KeyOf
  <2>1. j # i /\ invoke[j].pc = "wait" /\ invoke'[j].key = invoke[j].key /\ invoke[j].key \in Prompt
    BY <1>1, <1>2, <1>3 DEF AttemptLeft
  <2>2. CASE j \in inflight[invoke[j].key]
    BY <1>5, <2>1, <2>2
  <2>3. CASE \E m \in Invoker : invoke[m].pc = "send_out" /\ j \in invoke[m].taken
    BY <1>1, <1>2, <1>4, <2>1, <2>3
  <2>4. QED
    BY <2>1, <2>2, <2>3 DEF CoalescerInv, NoWaiterForgotten, At, KeyOf
<1>14. QED
  BY <1>6, <1>8, <1>9, <1>11, <1>12, <1>13 DEF CoalescerInv

\* complete: the list of waiters moves from the entry to the call that removed
\* it; while the token is valid that call is the only leader.
LEMMA CompleteInv ==
    ASSUME CallsOK, EntriesOK, AttemptLeft, CoalescerInv, NEW i \in Invoker, Complete(i)
    PROVE  CallsOK' /\ EntriesOK' /\ AttemptLeft' /\ CoalescerInv'
<1> DEFINE k == KeyOf(i)
           call == [invoke[i] EXCEPT !.pc = "send_out", !.taken = Removed(k)]
<1>1. k \in Prompt /\ invoke[i].pc = "finish" /\ token' = token
  BY DEF Complete, At, AttemptLeft, KeyOf, rest
<1>2. Removed(k) \in SUBSET Invoker
  BY <1>1, GatewayAssumption DEF EntriesOK, Removed, Absent
<1>3. call \in CallType /\ call.pc = "send_out" /\ call.key = k /\ call.taken = Removed(k)
  <2>1. invoke[i] \in CallType
    BY DEF CallsOK
  <2> HIDE DEF k
  <2>2. call \in CallType
    BY <1>2, <2>1 DEF CallType
  <2>3. call.pc = "send_out" /\ call.key = invoke[i].key /\ call.taken = Removed(k)
    BY <2>1 DEF CallType
  <2>4. QED
    BY <2>2, <2>3 DEF KeyOf, k
<1>4. invoke' = [invoke EXCEPT ![i] = call] /\ inflight' = [inflight EXCEPT ![k] = Absent]
  BY DEF Complete, CallsOK
<1> HIDE DEF call
<1>5. CallsOK' /\ EntriesOK'
  BY <1>3, <1>4 DEF CallsOK, EntriesOK
<1>6. AttemptLeft'
  BY <1>1, <1>3, <1>4 DEF AttemptLeft, CallsOK, BeforeSend
<1>7. "finish" \in Leads /\ "send_out" \notin Leads
  BY DEF Leads
<1>8. OneCallPerKey'
  BY <1>1, <1>3, <1>4, <1>7 DEF CoalescerInv, OneCallPerKey, CallsOK, KeyOf
<1>9. LeaderHasEntry'
  <2> SUFFICES ASSUME token', NEW j \in Invoker, invoke'[j].pc \in Leads
               PROVE  inflight'[invoke'[j].key] # Absent
    BY DEF LeaderHasEntry, KeyOf
  <2>1. j # i /\ invoke'[j] = invoke[j]
    BY <1>3, <1>4, <1>7 DEF CallsOK
  <2>2. invoke[j].key # k
    BY <1>1, <1>7, <2>1 DEF CoalescerInv, OneCallPerKey, KeyOf
  <2>3. inflight[invoke[j].key] # Absent /\ invoke[j].key \in Prompt
    BY <1>1, <2>1 DEF CoalescerInv, LeaderHasEntry, KeyOf, AttemptLeft, Leads
  <2>4. QED
    BY <1>4, <2>1, <2>2, <2>3 DEF EntriesOK
<1>10. NoWaiterForgotten'
  <2> SUFFICES ASSUME NEW j \in Invoker, invoke'[j].pc = "wait"
               PROVE  \/ j \in inflight'[invoke'[j].key]
                      \/ \E m \in Invoker : invoke'[m].pc = "send_out" /\ j \in invoke'[m].taken
    BY DEF NoWaiterForgotten, At, KeyOf
  <2>1. j # i /\ invoke'[j] = invoke[j] /\ invoke[j].key \in Prompt
    BY <1>3, <1>4 DEF CallsOK, AttemptLeft
  <2>2. CASE j \in inflight[invoke[j].key] /\ invoke[j].key = k
    <3>1. j \in Removed(k)
      BY <2>2, GatewayAssumption DEF Removed, Absent
    <3>2. QED
      BY <1>3, <1>4, <3>1 DEF CallsOK
  <2>3. CASE j \in inflight[invoke[j].key] /\ invoke[j].key # k
    BY <1>4, <2>1, <2>3 DEF EntriesOK
  <2>4. CASE \E m \in Invoker : invoke[m].pc = "send_out" /\ j \in invoke[m].taken
    BY <1>1, <1>4, <2>4 DEF CallsOK
  <2>5. QED
    BY <2>1, <2>2, <2>3, <2>4 DEF CoalescerInv, NoWaiterForgotten, At, KeyOf
<1>11. QED
  BY <1>5, <1>6, <1>8, <1>9, <1>10 DEF CoalescerInv

\* Sending the answer releases the waiters on the list and no others.
LEMMA SendOutInv ==
    ASSUME CallsOK, EntriesOK, AttemptLeft, CoalescerInv, NEW i \in Invoker, SendOut(i)
    PROVE  CallsOK' /\ EntriesOK' /\ AttemptLeft' /\ CoalescerInv'
<1>1. /\ \A j \in Invoker : invoke'[j] = IF j = i \/ (j \in invoke[i].taken /\ At(j, "wait"))
                                         THEN NoCallOf ELSE invoke[j]
      /\ invoke' = [j \in Invoker |-> invoke'[j]]
  BY DEF SendOut
<1>2. inflight' = inflight /\ token' = token /\ invoke[i].pc = "send_out"
  BY DEF SendOut, At, rest
<1>3. NoCallOf \in CallType /\ NoCallOf.pc = "idle"
  BY NoCallType DEF NoCallOf
<1>4. CallsOK' /\ EntriesOK'
  BY <1>1, <1>2, <1>3 DEF CallsOK, EntriesOK
<1>5. AttemptLeft'
  BY <1>1, <1>3 DEF AttemptLeft, BeforeSend
<1>6. LeaderHasEntry' /\ OneCallPerKey'
  BY <1>1, <1>2, <1>3 DEF CoalescerInv, LeaderHasEntry, OneCallPerKey, KeyOf, Leads
<1>7. NoWaiterForgotten'
  BY <1>1, <1>2, <1>3 DEF CoalescerInv, NoWaiterForgotten, At, KeyOf
<1>8. QED
  BY <1>4, <1>5, <1>6, <1>7 DEF CoalescerInv

-----------------------------------------------------------------------------
(* The cost guard.                                                         *)

\* What a step may add: nobody but the loser of the claim gets to the probe,
\* and nobody but a probe goes past the budget.
LEMMA GuardStep ==
    ASSUME CallsOK, FlagsOK, GuardInv, GatewayNext
    PROVE  GuardInv'
<1> USE DEF CallsOK, CallType, GuardInv, ProbeAfterReport, OverrunAnnounced, At, GoTo, Leave, Abandon,
            NoCallOf
<1>1. reported => reported'
  BY FlagsStep
<1>2. ASSUME \A j \in Invoker : /\ invoke'[j].probe => invoke[j].probe \/ invoke[j].pc = "probe"
                                /\ invoke'[j].pc = "probe" => invoke[j].pc = "probe"
      PROVE  GuardInv'
  BY <1>1, <1>2
<1>3. ASSUME NEW i \in Invoker, NEW k \in Prompt, Invoke(i, k)
      PROVE  GuardInv'
  BY <1>2, <1>3, InvokeCall, ZenonT(30)
<1>4. ASSUME NEW i \in Invoker, GiveUp(i) \/ SendOut(i)
      PROVE  GuardInv'
  BY <1>2, <1>4 DEF GiveUp, SendOut
<1>5. ASSUME NEW i \in Invoker, Complete(i) \/ Fail(i) \/ CheckCost(i) \/ Account(i)
      PROVE  GuardInv'
  BY <1>2, <1>5 DEF Complete, Fail, CheckCost, Account
<1>6. ASSUME NEW i \in Invoker, ClaimReport(i)
      PROVE  GuardInv'
  <2>1. reported'
    BY <1>6 DEF ClaimReport, Announces
  <2>2. QED
    BY <2>1
<1>7. ASSUME NEW i \in Invoker, Reopen(i)
      PROVE  GuardInv'
  BY <1>2, <1>7 DEF Reopen
<1>8. ASSUME NEW i \in Invoker, Allow(i) \/ HalfOpen(i) \/ Send(i) \/ Zero(i) \/ Close(i)
      PROVE  GuardInv'
  BY <1>2, <1>8 DEF Allow, HalfOpen, Send, Zero, Close
<1>9. ASSUME NEW i \in Invoker, Add(i) \/ Trip(i)
      PROVE  GuardInv'
  <2>1. CASE Add(i)
    BY <1>2, <2>1 DEF Add, Again
  <2>2. CASE Trip(i)
    BY <1>2, <2>2 DEF Trip, Again
  <2>3. QED
    BY <1>9, <2>1, <2>2
<1>10. CASE Later \/ Revoke
  BY <1>2, <1>10 DEF Later, Revoke
<1>11. QED
  BY <1>3, <1>4, <1>5, <1>6, <1>7, <1>8, <1>9, <1>10 DEF GatewayNext

-----------------------------------------------------------------------------
(* The circuit breaker.                                                    *)

\* Failures are only counted up, and every store that opens the circuit, and
\* every half-open trial, comes after Threshold of them.
LEMMA BreakerStep ==
    ASSUME CallsOK, CountersOK, BreakerInv, GatewayNext
    PROVE  BreakerInv'
<1> USE GatewayAssumption
    DEF CallsOK, CallType, CountersOK, BreakerInv, TripEarned, BreakerEarned, At, GoTo, Leave,
        Abandon, NoCallOf, channel, costGuard, rest
<1>1. ASSUME failures' = failures \/ failures' = 0, failed' = failed,
             circuit' = circuit \/ circuit' = "closed",
             \A j \in Invoker : /\ invoke'[j].half => invoke[j].half
                                /\ invoke'[j].pc = "trip" => invoke[j].pc = "trip"
      PROVE  BreakerInv'
  BY <1>1
<1>2. ASSUME NEW i \in Invoker, NEW k \in Prompt, Invoke(i, k)
      PROVE  BreakerInv'
  <2>1. PICK call \in CallType :
           /\ invoke' = [invoke EXCEPT ![i] = call]
           /\ call.pc \in {"check", "wait"} /\ call.half = FALSE
    BY <1>2, InvokeCall
  <2>2. UNCHANGED channel
    BY <1>2 DEF Invoke
  <2>3. QED
    BY <1>1, <2>1, <2>2
<1>3. ASSUME NEW i \in Invoker, GiveUp(i) \/ SendOut(i)
      PROVE  BreakerInv'
  BY <1>1, <1>3 DEF GiveUp, SendOut
<1>4. ASSUME NEW i \in Invoker, Complete(i) \/ Fail(i) \/ CheckCost(i) \/ Account(i)
      PROVE  BreakerInv'
  BY <1>1, <1>4 DEF Complete, Fail, CheckCost, Account
<1>5. ASSUME NEW i \in Invoker, ClaimReport(i) \/ Reopen(i)
      PROVE  BreakerInv'
  BY <1>1, <1>5 DEF ClaimReport, Reopen
<1>6. ASSUME NEW i \in Invoker, Allow(i) \/ Zero(i) \/ Close(i)
      PROVE  BreakerInv'
  BY <1>1, <1>6 DEF Allow, Zero, Close
<1>7. ASSUME NEW i \in Invoker, HalfOpen(i)
      PROVE  BreakerInv'
  BY <1>7 DEF HalfOpen
<1>8. ASSUME NEW i \in Invoker, Send(i)
      PROVE  BreakerInv'
  BY <1>8 DEF Send
<1>9. ASSUME NEW i \in Invoker, Add(i)
      PROVE  BreakerInv'
  <2>1. failures' = failures + 1 /\ failed' = failed + 1 /\ circuit' = circuit
    BY <1>9 DEF Add
  <2>2. \A j \in Invoker :
           /\ invoke'[j].half => invoke[j].half
           /\ invoke'[j].pc = "trip" =>
                 \/ invoke[j].pc = "trip" \/ invoke[j].half \/ failures + 1 >= Threshold
    BY <1>9 DEF Add, Again, Enough
  <2>3. QED
    BY <2>1, <2>2
<1>10. ASSUME NEW i \in Invoker, Trip(i)
       PROVE  BreakerInv'
  <2>1. failures' = failures /\ failed' = failed /\ failed >= Threshold
    BY <1>10 DEF Trip
  <2>2. QED
    BY <2>1
<1>11. CASE Later \/ Revoke
  BY <1>1, <1>11 DEF Later, Revoke
<1>12. QED
  BY <1>2, <1>3, <1>4, <1>5, <1>6, <1>7, <1>8, <1>9, <1>10, <1>11 DEF GatewayNext

-----------------------------------------------------------------------------
(* The theorems.                                                           *)

\* Every step of the channel preserves the invariant.
LEMMA GatewayNextInv == GatewayInv /\ [GatewayNext]_gatewayVars => GatewayInv'
<1> SUFFICES ASSUME GatewayInv, [GatewayNext]_gatewayVars PROVE GatewayInv'
  OBVIOUS
<1>1. CASE UNCHANGED gatewayVars
  BY <1>1 DEF gatewayVars, GatewayInv, GatewayTypeOK, AttemptLeft, CoalescerInv, LeaderHasEntry,
              OneCallPerKey, NoWaiterForgotten, GuardInv, ProbeAfterReport, OverrunAnnounced,
              BreakerInv, TripEarned, BreakerEarned, At, KeyOf
<1>2. CASE GatewayNext
  <2>1. CallsOK /\ EntriesOK /\ FlagsOK /\ CountersOK /\ AttemptLeft /\ CoalescerInv /\ GuardInv
        /\ BreakerInv
    BY TypeParts DEF GatewayInv
  <2>2. CountersOK' /\ FlagsOK' /\ (token' => token)
    BY <1>2, <2>1, CountersStep, FlagsStep
  <2>3. CallsOK' /\ EntriesOK' /\ AttemptLeft' /\ CoalescerInv'
    <3>1. CASE Later \/ Revoke
      BY <2>1, <2>2, <3>1
         DEF Later, Revoke, CallsOK, EntriesOK, AttemptLeft, CoalescerInv, LeaderHasEntry,
             OneCallPerKey, NoWaiterForgotten, At, KeyOf
    <3>2. QED
      BY <1>2, <2>1, <2>2, <3>1, LeaderSteps, LeaderInv, InvokeInv, GiveUpInv, CompleteInv,
         SendOutInv DEF GatewayNext
  <2>4. GuardInv' /\ BreakerInv'
    BY <1>2, <2>1, GuardStep, BreakerStep
  <2>5. QED
    BY <2>2, <2>3, <2>4, TypeParts DEF GatewayInv
<1>3. QED
  BY <1>1, <1>2

\* The inductive invariant of the channel.
THEOREM GatewayInvariant == GatewaySpec => []GatewayInv
BY GatewayInitInv, GatewayNextInv, PTL DEF GatewaySpec

\* While the token is valid, identical requests are paid once, for any number
\* of tasks and keys.
THEOREM OneCallPerKeyProved == GatewaySpec => []OneCallPerKey
<1>1. GatewayInv => OneCallPerKey
  BY DEF GatewayInv, CoalescerInv
<1>2. QED
  BY <1>1, GatewayInvariant, PTL

\* No waiter is dropped between an entry and the completion that removed it.
THEOREM NoWaiterForgottenProved == GatewaySpec => []NoWaiterForgotten
<1>1. GatewayInv => NoWaiterForgotten
  BY DEF GatewayInv, CoalescerInv
<1>2. QED
  BY <1>1, GatewayInvariant, PTL

\* The types and attempts, the cost guard's report and the circuit breaker's
\* threshold.
THEOREM GuardsProved == GatewaySpec => [](GatewayTypeOK /\ OverrunAnnounced /\ BreakerEarned)
<1>1. GatewayInv => GatewayTypeOK /\ OverrunAnnounced /\ BreakerEarned
  BY DEF GatewayInv, GuardInv, BreakerInv
<1>2. QED
  BY <1>1, GatewayInvariant, PTL
-----------------------------------------------------------------------------
(* The context cache.                                                      *)

\* The places inside insert, where a task holds the insert lock.
InInsert == {"scan", "evict", "tick", "fill"}

UserType ==
  [pc : {"away", "stamp"} \cup InInsert, id : Context \cup {NoContext},
   left : SUBSET Context, may : SUBSET Context]

SccTypes ==
  /\ entries \in [Context -> 0 .. MaxCacheCalls] /\ accessOrder \subseteq Context
  /\ user \in [CacheUser -> UserType]
  /\ holds \in [CacheUser -> SUBSET (Context \X (1 .. MaxCacheCalls))]
  /\ cacheCalls \in 0 .. MaxCacheCalls /\ overflows \in Nat
  /\ IsFiniteSet(Cached)

\* The insert lock.
InsertLockOK ==
  /\ \A u \in CacheUser : u \in insertHeld <=> user[u].pc \in InInsert
  /\ insertHeld \subseteq CacheUser /\ \A u, w \in insertHeld : u = w

\* An insert that looks for a victim has been counted as a call.
OverflowsCounted ==
  /\ overflows <= cacheCalls
  /\ \A u \in CacheUser : user[u].pc = "scan" => overflows < cacheCalls

\* What the task w inside insert, or about to stamp, knows.
UserOK(w) ==
  /\ w.pc # "away" => w.id \in Context
  /\ w.pc = "scan" => w.may \subseteq Cached
  /\ w.pc = "evict" => \E v \in Cached : w.may = {v}
  /\ w.pc = "fill" => w.id \in accessOrder
  /\ w.pc \in {"tick", "fill"} => Cardinality(Cached \cup {w.id}) <= CacheSize + overflows

UsersOK == \A u \in CacheUser : UserOK(user[u])

SccInv ==
  /\ SccTypes /\ InsertLockOK /\ OverflowsCounted /\ UsersOK
  /\ EveryEntryListed /\ OverflowExplained

LEMMA SccMoves ==
  ASSUME SccTypes, NEW u \in CacheUser, NEW w \in UserType, Move(u, w)
  PROVE  /\ user' \in [CacheUser -> UserType] /\ user'[u] = w
         /\ \A x \in CacheUser \ {u} : user'[x] = user[x]
  BY DEF SccTypes, Move

LEMMA AwayType == Away \in UserType /\ Away.pc = "away"
  BY DEF Away, UserType, InInsert

\* Nobody else is inside insert.
LEMMA AloneInside ==
  ASSUME InsertLockOK, NEW u \in CacheUser, user[u].pc \in InInsert
  PROVE  insertHeld = {u}
  BY DEF InsertLockOK

\* A step of u that stays inside insert or outside of it and leaves the lock,
\* the entries and the overflows alone.
LEMMA SccQuiet ==
  ASSUME SccInv, NEW u \in CacheUser, NEW w \in UserType, Move(u, w),
         user[u].pc \in InInsert <=> w.pc \in InInsert,
         UNCHANGED <<entries, insertHeld, overflows>>, accessOrder \subseteq accessOrder',
         accessOrder' \subseteq Context,
         holds' \in [CacheUser -> SUBSET (Context \X (1 .. MaxCacheCalls))],
         cacheCalls' \in 0 .. MaxCacheCalls, cacheCalls <= cacheCalls',
         w.pc = "scan" => user[u].pc = "scan",
         user[u].pc # "evict", w.pc # "evict",
         UserOK(w)'
  PROVE  SccInv'
<1>t. SccTypes
  BY DEF SccInv
<1>1. /\ user' \in [CacheUser -> UserType] /\ user'[u] = w
      /\ \A x \in CacheUser \ {u} : user'[x] = user[x]
  BY <1>t, SccMoves
<1>2. Cached' = Cached
  BY DEF Cached
<1>3. SccTypes'
  BY <1>t, <1>1, <1>2, Zenon DEF SccTypes
<1>4. InsertLockOK'
  BY <1>1 DEF SccInv, InsertLockOK
<1>5. OverflowsCounted'
  <2>1. overflows \in Nat /\ cacheCalls \in Nat /\ cacheCalls' \in Nat
    BY SccAssumption DEF SccInv, SccTypes
  <2>2. overflows' = overflows
    OBVIOUS
  <2>3. QED
    BY <1>1, <2>1, <2>2 DEF SccInv, OverflowsCounted
<1>6. UsersOK'
  <2>1. \A x \in CacheUser \ {u} : UserOK(user[x])'
    BY <1>1, <1>2 DEF SccInv, UsersOK, UserOK
  <2>2. QED
    BY <1>1, <2>1 DEF UsersOK
<1>7. EveryEntryListed'
  <2> SUFFICES ASSUME NEW x \in Cached', x \notin accessOrder'
               PROVE  \E z \in insertHeld' : UserAt(z, "evict")' /\ x \in user'[z].may
    BY DEF EveryEntryListed
  <2>1. x \in Cached \ accessOrder
    BY <1>2
  <2>2. PICK z \in insertHeld : user[z].pc = "evict" /\ x \in user[z].may
    BY <2>1 DEF SccInv, EveryEntryListed, UserAt
  <2>3. z \in CacheUser \ {u}
    BY <2>2 DEF SccInv, InsertLockOK
  <2>4. QED
    BY <1>1, <2>2, <2>3 DEF UserAt
<1>8. OverflowExplained'
  BY <1>2 DEF SccInv, OverflowExplained
<1>9. QED
  BY <1>3, <1>4, <1>5, <1>6, <1>7, <1>8 DEF SccInv

LEMMA SccStarts == SccInit => SccInv
<1> SUFFICES ASSUME SccInit PROVE SccInv
  OBVIOUS
<1>1. Cached = {} /\ IsFiniteSet({}) /\ Cardinality({}) = 0
  BY FS_EmptySet DEF SccInit, Cached
<1>2. \A u \in CacheUser : user[u] = Away /\ user[u].pc = "away"
  BY AwayType DEF SccInit
<1>3. SccTypes
  BY <1>1, AwayType, SccAssumption DEF SccInit, SccTypes
<1>4. InsertLockOK /\ OverflowsCounted
  BY <1>2 DEF SccInit, InsertLockOK, OverflowsCounted, InInsert
<1>5. UsersOK
  BY <1>2 DEF UsersOK, UserOK
<1>6. EveryEntryListed
  BY <1>1 DEF EveryEntryListed
<1>7. OverflowExplained
  BY <1>1, SccAssumption DEF OverflowExplained, SccInit
<1>8. QED
  BY <1>3, <1>4, <1>5, <1>6, <1>7 DEF SccInv

\* The steps outside of the insert lock.
LEMMA SccOutside ==
  ASSUME SccInv, NEW u \in CacheUser,
         (\E x \in Context : Get(u, x)) \/ StampAccess(u) \/ Release(u)
  PROVE  SccInv'
<1>t. SccTypes
  BY DEF SccInv
<1>1. ASSUME NEW x \in Context, Get(u, x)
      PROVE  SccInv'
  <2>0. /\ user[u].pc = "away" /\ cacheCalls < MaxCacheCalls /\ cacheCalls' = cacheCalls + 1
        /\ UNCHANGED <<entries, accessOrder, insertHeld, overflows>>
    BY <1>1 DEF Get, Begins, UserAt
  <2>n. cacheCalls' \in 0 .. MaxCacheCalls /\ cacheCalls <= cacheCalls'
    BY <2>0, <1>t, SccAssumption DEF SccTypes
  <2>1. CASE entries[x] = 0
    <3>1. Move(u, Away) /\ holds' = holds
      BY <1>1, <2>1 DEF Get, Begins
    <3>2. UserOK(Away)'
      BY AwayType DEF UserOK
    <3>3. QED
      BY <2>0, <2>n, <3>1, <3>2, <1>t, AwayType, SccQuiet DEF SccTypes, InInsert
  <2>2. CASE entries[x] # 0
    <3> DEFINE w == [Away EXCEPT !.pc = "stamp", !.id = x]
    <3>1. Move(u, w) /\ holds' = [holds EXCEPT ![u] = @ \cup {<<x, entries[x]>>}]
      BY <1>1, <2>2 DEF Get, Begins
    <3>2. w \in UserType /\ w.pc = "stamp" /\ w.id = x
      BY AwayType DEF UserType
    <3> HIDE DEF w
    <3>3. UserOK(w)'
      BY <3>2 DEF UserOK
    <3>4. entries[x] \in 1 .. MaxCacheCalls
      BY <2>2, <1>t, SccAssumption DEF SccTypes
    <3>5. holds' \in [CacheUser -> SUBSET (Context \X (1 .. MaxCacheCalls))]
      BY <3>1, <3>4, <1>t DEF SccTypes
    <3>6. QED
      BY <2>0, <2>n, <3>1, <3>2, <3>3, <3>5, <1>t, SccQuiet DEF SccTypes, InInsert
  <2>3. QED
    BY <2>1, <2>2
<1>2. CASE StampAccess(u)
  <2>1. /\ user[u].pc = "stamp" /\ accessOrder' = accessOrder \cup {user[u].id} /\ Move(u, Away)
        /\ UNCHANGED <<entries, insertHeld, holds, cacheCalls, overflows>>
    BY <1>2 DEF StampAccess, UserAt
  <2>2. user[u].id \in Context
    BY <2>1 DEF SccInv, UsersOK, UserOK
  <2>3. UserOK(Away)'
    BY AwayType DEF UserOK
  <2>4. cacheCalls' \in 0 .. MaxCacheCalls /\ cacheCalls <= cacheCalls'
    BY <2>1, <1>t DEF SccTypes
  <2>5. QED
    BY <2>1, <2>2, <2>3, <2>4, <1>t, AwayType, SccQuiet DEF SccTypes, InInsert
<1>3. CASE Release(u)
  <2>1. /\ user[u].pc = "away"
        /\ UNCHANGED <<entries, accessOrder, insertHeld, user, cacheCalls, overflows>>
        /\ \E h \in holds[u] : holds' = [holds EXCEPT ![u] = @ \ {h}]
    BY <1>3 DEF Release, UserAt
  <2>2. holds' \in [CacheUser -> SUBSET (Context \X (1 .. MaxCacheCalls))]
    BY <2>1, <1>t DEF SccTypes
  <2>3. Cached' = Cached
    BY <2>1 DEF Cached
  <2>4. SccTypes' /\ InsertLockOK' /\ OverflowsCounted' /\ UsersOK'
    BY <2>1, <2>2, <2>3 DEF SccInv, SccTypes, InsertLockOK, OverflowsCounted, UsersOK, UserOK
  <2>5. EveryEntryListed' /\ OverflowExplained'
    BY <2>1, <2>3 DEF SccInv, EveryEntryListed, OverflowExplained, UserAt
  <2>6. QED
    BY <2>4, <2>5 DEF SccInv
<1>4. QED
  BY <1>1, <1>2, <1>3

\* The parts of SccInv for a step of the task u that goes to w.
LEMMA SccParts ==
  ASSUME SccInv, NEW u \in CacheUser, NEW w \in UserType, Move(u, w),
         w.pc \in InInsert => insertHeld' = {u},
         w.pc \notin InInsert => insertHeld' = {},
         user[u].pc \in InInsert \/ insertHeld = {}
  PROVE  /\ user' \in [CacheUser -> UserType] /\ user'[u] = w
         /\ \A x \in CacheUser \ {u} : user'[x] = user[x] /\ user[x].pc \notin InInsert
         /\ InsertLockOK'
<1>1. /\ user' \in [CacheUser -> UserType] /\ user'[u] = w
      /\ \A x \in CacheUser \ {u} : user'[x] = user[x]
  BY SccMoves DEF SccInv
<1>2. \A x \in CacheUser \ {u} : user[x].pc \notin InInsert
  BY DEF SccInv, InsertLockOK
<1>3. InsertLockOK'
  BY <1>1, <1>2 DEF InsertLockOK
<1>4. QED
  BY <1>1, <1>2, <1>3

\* Nobody has to be looked at but the one task inside insert.
LEMMA SccUsers ==
  ASSUME SccInv, NEW u \in CacheUser, NEW w,
         user'[u] = w, \A x \in CacheUser \ {u} : user'[x] = user[x] /\ user[x].pc \notin InInsert,
         UserOK(w)'
  PROVE  UsersOK'
<1>1. ASSUME NEW x \in CacheUser \ {u} PROVE UserOK(user[x])'
  BY <1>1 DEF SccInv, UsersOK, UserOK, InInsert
<1>2. QED
  BY <1>1 DEF UsersOK

\* insert: the lock and the question whether an entry has to go.
LEMMA SccInsertStart ==
  ASSUME SccInv, NEW u \in CacheUser, NEW x \in Context, InsertStart(u, x)
  PROVE  SccInv'
<1>t. SccTypes
  BY DEF SccInv
<1> DEFINE full == x \notin Cached /\ Cardinality(Cached) >= CacheSize
           ws == [Away EXCEPT !.pc = "scan", !.id = x, !.left = accessOrder]
           wt == [Away EXCEPT !.pc = "tick", !.id = x]
<1>0. /\ insertHeld = {} /\ insertHeld' = {u} /\ user[u].pc = "away"
      /\ cacheCalls < MaxCacheCalls /\ cacheCalls' = cacheCalls + 1
      /\ Move(u, IF full THEN ws ELSE wt)
      /\ UNCHANGED <<entries, accessOrder, holds, overflows>>
  BY DEF InsertStart, Begins, UserAt
<1>1. /\ ws \in UserType /\ ws.pc = "scan" /\ ws.id = x /\ ws.may = {}
      /\ wt \in UserType /\ wt.pc = "tick" /\ wt.id = x
  BY <1>t, AwayType DEF UserType, InInsert, SccTypes, Away
<1> HIDE DEF ws, wt
<1>w. PICK w : w = IF full THEN ws ELSE wt
  OBVIOUS
<1>2. /\ w \in UserType /\ w.pc \in InInsert /\ w.id = x /\ w.pc \in {"scan", "tick"}
      /\ w.pc = "scan" => w.may = {}
      /\ w.pc = "tick" => ~full
      /\ Move(u, w)
  BY <1>0, <1>1, <1>w DEF InInsert
<1>n. /\ cacheCalls \in Nat /\ cacheCalls' \in 0 .. MaxCacheCalls /\ overflows \in Nat
      /\ CacheSize \in Nat \ {0} /\ IsFiniteSet(Cached) /\ Cardinality(Cached) \in Nat
  BY <1>0, <1>t, SccAssumption, FS_CardinalityType DEF SccTypes
<1>3. Cached' = Cached
  BY <1>0 DEF Cached
<1>4. /\ user' \in [CacheUser -> UserType] /\ user'[u] = w
      /\ \A z \in CacheUser \ {u} : user'[z] = user[z] /\ user[z].pc \notin InInsert
      /\ InsertLockOK'
  BY <1>0, <1>2, SccParts
<1>5. SccTypes'
  BY <1>0, <1>n, <1>3, <1>4, <1>t DEF SccTypes
<1>6. OverflowsCounted'
  BY <1>0, <1>2, <1>4, <1>n DEF SccInv, OverflowsCounted, InInsert
<1>7. w.pc = "tick" => Cardinality(Cached \cup {x}) <= CacheSize + overflows
  <2> SUFFICES ASSUME w.pc = "tick" PROVE Cardinality(Cached \cup {x}) <= CacheSize + overflows
    OBVIOUS
  <2>1. CASE x \in Cached
    <3>1. Cached \cup {x} = Cached
      BY <2>1
    <3>2. QED
      BY <3>1 DEF SccInv, OverflowExplained
  <2>2. CASE x \notin Cached
    <3>1. Cardinality(Cached \cup {x}) = Cardinality(Cached) + 1
      BY <2>2, <1>n, FS_AddElement
    <3>2. QED
      BY <2>2, <3>1, <1>2, <1>n
  <2>3. QED
    BY <2>1, <2>2
<1> HIDE DEF full
<1>8. UserOK(w)'
  BY <1>0, <1>2, <1>3, <1>7 DEF UserOK
<1>9. UsersOK'
  BY <1>4, <1>8, SccUsers
<1>10. EveryEntryListed'
  BY <1>0, <1>3 DEF SccInv, EveryEntryListed
<1>11. OverflowExplained'
  BY <1>0, <1>3 DEF SccInv, OverflowExplained
<1>12. QED
  BY <1>4, <1>5, <1>6, <1>9, <1>10, <1>11 DEF SccInv

LEMMA SccScan ==
  ASSUME SccInv, NEW u \in CacheUser, Scan(u)
  PROVE  SccInv'
<1>t. SccTypes
  BY DEF SccInv
<1>0. /\ user[u].pc = "scan"
      /\ UNCHANGED <<entries, accessOrder, insertHeld, holds, cacheCalls, overflows>>
      /\ user[u] \in UserType
  BY <1>t DEF Scan, UserAt, SccTypes
<1>1. PICK x \in user[u].left :
        Move(u, [user[u] EXCEPT !.left = @ \ {x},
                                !.may = IF x \in Cached /\ Unheld(x) THEN @ \cup {x} ELSE @])
  BY DEF Scan
<1> DEFINE m == IF x \in Cached /\ Unheld(x) THEN user[u].may \cup {x} ELSE user[u].may
<1>w. PICK w : w = [user[u] EXCEPT !.left = @ \ {x}, !.may = m]
  OBVIOUS
<1>2. m \subseteq Context /\ m \subseteq Cached
  BY <1>0 DEF SccInv, UsersOK, UserOK, UserType, Cached
<1>3. Move(u, w)
  BY <1>1, <1>w
<1> HIDE DEF m
<1>4. w \in UserType /\ w.pc = "scan" /\ w.id = user[u].id /\ w.may = m
  BY <1>0, <1>2, <1>w DEF UserType
<1>5. UserOK(w)'
  <2>1. Cached' = Cached
    BY <1>0 DEF Cached
  <2>2. user[u].id \in Context
    BY <1>0 DEF SccInv, UsersOK, UserOK
  <2>3. QED
    BY <1>2, <1>4, <2>1, <2>2 DEF UserOK
<1>6. cacheCalls' \in 0 .. MaxCacheCalls /\ cacheCalls <= cacheCalls'
  BY <1>0, <1>t DEF SccTypes
<1>7. QED
  BY <1>0, <1>3, <1>4, <1>5, <1>6, <1>t, SccQuiet DEF SccTypes, InInsert

\* The victim leaves the order, or there is none and the cache overflows.
LEMMA SccEvictOrder ==
  ASSUME SccInv, NEW u \in CacheUser, EvictOrder(u)
  PROVE  SccInv'
<1>t. SccTypes
  BY DEF SccInv
<1>0. /\ user[u].pc = "scan" /\ UNCHANGED <<entries, insertHeld, holds, cacheCalls>>
      /\ user[u] \in UserType /\ user[u].id \in Context /\ user[u].may \subseteq Cached
  BY <1>t DEF EvictOrder, UserAt, SccTypes, SccInv, UsersOK, UserOK
<1>h. insertHeld = {u}
  BY <1>0, AloneInside DEF SccInv, InInsert
<1>c. Cached' = Cached /\ Cached \subseteq accessOrder
  BY <1>0, <1>h DEF Cached, SccInv, EveryEntryListed, UserAt
<1>n. /\ cacheCalls \in Nat /\ overflows \in Nat /\ overflows < cacheCalls
      /\ CacheSize \in Nat \ {0} /\ IsFiniteSet(Cached) /\ Cardinality(Cached) \in Nat
      /\ Cardinality(Cached) <= CacheSize + overflows
  BY <1>0, <1>t, SccAssumption, FS_CardinalityType
  DEF SccTypes, SccInv, OverflowsCounted, OverflowExplained
<1>1. CASE user[u].may = {}
  <2>w. PICK w : w = [user[u] EXCEPT !.pc = "tick"]
    OBVIOUS
  <2>1. Move(u, w) /\ overflows' = overflows + 1 /\ accessOrder' = accessOrder
    BY <1>1, <2>w DEF EvictOrder
  <2>2. w \in UserType /\ w.pc = "tick" /\ w.id = user[u].id
    BY <1>0, <2>w DEF UserType, InInsert
  <2>3. /\ user' \in [CacheUser -> UserType] /\ user'[u] = w
        /\ \A z \in CacheUser \ {u} : user'[z] = user[z] /\ user[z].pc \notin InInsert
        /\ InsertLockOK'
    BY <1>0, <1>h, <2>1, <2>2, SccParts DEF InInsert
  <2>4. SccTypes'
    BY <1>0, <1>c, <1>n, <2>1, <2>3, <1>t DEF SccTypes
  <2>5. OverflowsCounted'
    BY <1>0, <1>n, <2>1, <2>2, <2>3 DEF OverflowsCounted, InInsert
  <2>6. Cardinality(Cached \cup {w.id}) <= CacheSize + overflows'
    <3>1. \/ Cardinality(Cached \cup {w.id}) = Cardinality(Cached)
          \/ Cardinality(Cached \cup {w.id}) = Cardinality(Cached) + 1
      BY <1>n, FS_AddElement
    <3>2. QED
      BY <1>n, <2>1, <3>1
  <2>7. UserOK(w)'
    BY <1>0, <1>c, <2>2, <2>6 DEF UserOK
  <2>8. UsersOK'
    BY <2>3, <2>7, SccUsers
  <2>9. EveryEntryListed'
    BY <1>c, <2>1 DEF EveryEntryListed
  <2>10. OverflowExplained'
    BY <1>c, <1>n, <2>1 DEF OverflowExplained
  <2>11. QED
    BY <2>3, <2>4, <2>5, <2>8, <2>9, <2>10 DEF SccInv
<1>2. CASE user[u].may # {}
  <2>0. PICK v \in user[u].may :
          /\ accessOrder' = accessOrder \ {v}
          /\ Move(u, [user[u] EXCEPT !.pc = "evict", !.may = {v}])
          /\ UNCHANGED overflows
    BY <1>2 DEF EvictOrder
  <2>w. PICK w : w = [user[u] EXCEPT !.pc = "evict", !.may = {v}]
    OBVIOUS
  <2>1. Move(u, w)
    BY <2>0, <2>w
  <2>2. v \in Context /\ v \in Cached
    BY <1>0 DEF UserType
  <2>3. w \in UserType /\ w.pc = "evict" /\ w.id = user[u].id /\ w.may = {v}
    BY <1>0, <2>2, <2>w DEF UserType, InInsert
  <2>4. /\ user' \in [CacheUser -> UserType] /\ user'[u] = w
        /\ \A z \in CacheUser \ {u} : user'[z] = user[z] /\ user[z].pc \notin InInsert
        /\ InsertLockOK'
    BY <1>0, <1>h, <2>1, <2>3, SccParts DEF InInsert
  <2>5. SccTypes'
    BY <1>0, <1>c, <2>0, <2>4, <1>t DEF SccTypes
  <2>6. OverflowsCounted'
    BY <1>0, <1>n, <2>0, <2>3, <2>4 DEF SccInv, OverflowsCounted
  <2>7. UserOK(w)'
    BY <1>0, <1>c, <2>2, <2>3 DEF UserOK
  <2>8. UsersOK'
    BY <2>4, <2>7, SccUsers
  <2>9. EveryEntryListed'
    <3> SUFFICES ASSUME NEW x \in Cached', x \notin accessOrder'
                 PROVE  \E z \in insertHeld' : UserAt(z, "evict")' /\ x \in user'[z].may
      BY DEF EveryEntryListed
    <3>1. x = v
      BY <1>c, <2>0
    <3>2. u \in insertHeld' /\ UserAt(u, "evict")' /\ x \in user'[u].may
      BY <1>0, <1>h, <2>3, <2>4, <3>1 DEF UserAt
    <3>3. QED
      BY <3>2
  <2>10. OverflowExplained'
    BY <1>c, <1>n, <2>0 DEF OverflowExplained
  <2>11. QED
    BY <2>4, <2>5, <2>6, <2>8, <2>9, <2>10 DEF SccInv
<1>3. QED
  BY <1>1, <1>2

LEMMA SccEvictEntry ==
  ASSUME SccInv, NEW u \in CacheUser, EvictEntry(u)
  PROVE  SccInv'
<1>t. SccTypes
  BY DEF SccInv
<1>0. /\ user[u].pc = "evict" /\ UNCHANGED <<accessOrder, insertHeld, holds, cacheCalls, overflows>>
      /\ user[u] \in UserType /\ user[u].id \in Context
      /\ entries' = [x \in Context |-> IF x \in user[u].may THEN 0 ELSE entries[x]]
      /\ Move(u, [user[u] EXCEPT !.pc = "tick", !.may = {}])
  BY <1>t DEF EvictEntry, UserAt, SccTypes, SccInv, UsersOK, UserOK
<1>v. PICK v \in Cached : user[u].may = {v}
  BY <1>0 DEF SccInv, UsersOK, UserOK
<1>h. insertHeld = {u}
  BY <1>0, AloneInside DEF SccInv, InInsert
<1>c. Cached' = Cached \ {v} /\ Cached \ {v} \subseteq accessOrder
  <2>1. Cached' = Cached \ {v}
    BY <1>0, <1>v DEF Cached
  <2>2. Cached \ {v} \subseteq accessOrder
    BY <1>h, <1>v DEF SccInv, EveryEntryListed
  <2>3. QED
    BY <2>1, <2>2
<1>n. /\ cacheCalls \in Nat /\ overflows \in Nat
      /\ CacheSize \in Nat \ {0} /\ IsFiniteSet(Cached) /\ Cardinality(Cached) \in Nat
      /\ Cardinality(Cached) <= CacheSize + overflows
  BY <1>0, <1>t, SccAssumption, FS_CardinalityType
  DEF SccTypes, SccInv, OverflowExplained
<1>m. IsFiniteSet(Cached \ {v}) /\ Cardinality(Cached \ {v}) = Cardinality(Cached) - 1
  BY <1>n, FS_RemoveElement
<1>w. PICK w : w = [user[u] EXCEPT !.pc = "tick", !.may = {}]
  OBVIOUS
<1>1. Move(u, w)
  BY <1>0, <1>w
<1>2. w \in UserType /\ w.pc = "tick" /\ w.id = user[u].id
  BY <1>0, <1>w DEF UserType, InInsert
<1>3. /\ user' \in [CacheUser -> UserType] /\ user'[u] = w
      /\ \A z \in CacheUser \ {u} : user'[z] = user[z] /\ user[z].pc \notin InInsert
      /\ InsertLockOK'
  BY <1>0, <1>h, <1>1, <1>2, SccParts DEF InInsert
<1>4. entries' \in [Context -> 0 .. MaxCacheCalls]
  BY <1>0, <1>t, SccAssumption DEF SccTypes
<1>5. SccTypes'
  BY <1>0, <1>c, <1>m, <1>3, <1>4, <1>t DEF SccTypes
<1>6. OverflowsCounted'
  BY <1>0, <1>2, <1>3 DEF SccInv, OverflowsCounted
<1>7. /\ Cardinality((Cached \ {v}) \cup {w.id}) <= CacheSize + overflows
      /\ Cardinality(Cached \ {v}) <= CacheSize + overflows
  <2>1. \/ Cardinality((Cached \ {v}) \cup {w.id}) = Cardinality(Cached) - 1
        \/ Cardinality((Cached \ {v}) \cup {w.id}) = Cardinality(Cached) - 1 + 1
    BY <1>m, FS_AddElement
  <2>2. QED
    BY <1>n, <1>m, <2>1
<1>8. UserOK(w)'
  BY <1>0, <1>c, <1>2, <1>7 DEF UserOK
<1>9. UsersOK'
  BY <1>3, <1>8, SccUsers
<1>10. EveryEntryListed'
  BY <1>0, <1>c DEF EveryEntryListed
<1>11. OverflowExplained'
  BY <1>0, <1>c, <1>7 DEF OverflowExplained
<1>12. QED
  BY <1>3, <1>5, <1>6, <1>9, <1>10, <1>11 DEF SccInv

LEMMA SccTock ==
  ASSUME SccInv, NEW u \in CacheUser, Tock(u)
  PROVE  SccInv'
<1>t. SccTypes
  BY DEF SccInv
<1>w. PICK w : w = [user[u] EXCEPT !.pc = "fill"]
  OBVIOUS
<1>0. /\ user[u].pc = "tick" /\ UNCHANGED <<entries, insertHeld, holds, cacheCalls, overflows>>
      /\ user[u] \in UserType /\ user[u].id \in Context
      /\ accessOrder' = accessOrder \cup {user[u].id} /\ Move(u, w)
      /\ Cardinality(Cached \cup {user[u].id}) <= CacheSize + overflows
  BY <1>t, <1>w DEF Tock, UserAt, SccTypes, SccInv, UsersOK, UserOK
<1>1. w \in UserType /\ w.pc = "fill" /\ w.id = user[u].id
  BY <1>0, <1>w DEF UserType, InInsert
<1>2. Cached' = Cached
  BY <1>0 DEF Cached
<1>3. UserOK(w)'
  BY <1>0, <1>1, <1>2 DEF UserOK
<1>4. cacheCalls' \in 0 .. MaxCacheCalls /\ cacheCalls <= cacheCalls'
  BY <1>0, <1>t DEF SccTypes
<1>5. QED
  BY <1>0, <1>1, <1>3, <1>4, <1>t, SccQuiet DEF SccTypes, InInsert

LEMMA SccFill ==
  ASSUME SccInv, NEW u \in CacheUser, Fill(u)
  PROVE  SccInv'
<1>t. SccTypes
  BY DEF SccInv
<1> DEFINE c == user[u].id
<1>0. /\ user[u].pc = "fill" /\ UNCHANGED <<accessOrder, holds, cacheCalls, overflows>>
      /\ c \in Context /\ c \in accessOrder
      /\ entries' = [entries EXCEPT ![c] = cacheCalls] /\ insertHeld' = {} /\ Move(u, Away)
      /\ Cardinality(Cached \cup {c}) <= CacheSize + overflows
  BY <1>t DEF Fill, UserAt, SccTypes, SccInv, UsersOK, UserOK
<1>h. insertHeld = {u}
  BY <1>0, AloneInside DEF SccInv, InInsert
<1>l. Cached \subseteq accessOrder
  BY <1>0, <1>h DEF SccInv, EveryEntryListed, UserAt
<1> HIDE DEF c
<1>1. Cached' \subseteq Cached \cup {c}
  BY <1>0, <1>t DEF Cached, SccTypes
<1>n. /\ overflows \in Nat /\ CacheSize \in Nat
      /\ IsFiniteSet(Cached \cup {c}) /\ Cardinality(Cached \cup {c}) \in Nat
  BY <1>t, SccAssumption, FS_AddElement, FS_CardinalityType DEF SccTypes
<1>2. /\ IsFiniteSet(Cached') /\ Cardinality(Cached') <= Cardinality(Cached \cup {c})
      /\ Cardinality(Cached') \in Nat
  BY <1>1, <1>n, FS_Subset, FS_CardinalityType
<1>3. /\ user' \in [CacheUser -> UserType] /\ user'[u] = Away
      /\ \A z \in CacheUser \ {u} : user'[z] = user[z] /\ user[z].pc \notin InInsert
      /\ InsertLockOK'
  BY <1>0, <1>h, AwayType, SccParts DEF InInsert
<1>4. entries' \in [Context -> 0 .. MaxCacheCalls]
  BY <1>0, <1>t DEF SccTypes
<1>5. SccTypes'
  BY <1>0, <1>2, <1>3, <1>4, <1>t DEF SccTypes
<1>6. OverflowsCounted'
  BY <1>0, <1>3, AwayType DEF SccInv, OverflowsCounted
<1>7. UserOK(Away)'
  BY AwayType DEF UserOK
<1>8. UsersOK'
  BY <1>3, <1>7, SccUsers
<1>9. EveryEntryListed'
  BY <1>0, <1>1, <1>l DEF EveryEntryListed
<1>10. OverflowExplained'
  BY <1>0, <1>2, <1>n DEF OverflowExplained
<1>11. QED
  BY <1>3, <1>5, <1>6, <1>8, <1>9, <1>10 DEF SccInv

LEMMA SccSteps == SccInv /\ [SccNext]_sccVars => SccInv'
<1> SUFFICES ASSUME SccInv, [SccNext]_sccVars PROVE SccInv'
  OBVIOUS
<1>1. CASE UNCHANGED sccVars
  <2>1. Cached' = Cached
    BY <1>1 DEF Cached, sccVars
  <2>2. SccTypes' /\ InsertLockOK' /\ OverflowsCounted' /\ UsersOK'
    BY <1>1, <2>1 DEF SccInv, SccTypes, InsertLockOK, OverflowsCounted, UsersOK, UserOK, sccVars
  <2>3. EveryEntryListed' /\ OverflowExplained'
    BY <1>1, <2>1 DEF SccInv, EveryEntryListed, OverflowExplained, UserAt, sccVars
  <2>4. QED
    BY <2>2, <2>3 DEF SccInv
<1>2. CASE SccNext
  <2>1. PICK u \in CacheUser :
          \/ \E x \in Context : Get(u, x) \/ InsertStart(u, x)
          \/ StampAccess(u) \/ Release(u)
          \/ Scan(u) \/ EvictOrder(u) \/ EvictEntry(u) \/ Tock(u) \/ Fill(u)
    BY <1>2 DEF SccNext
  <2>2. QED
    BY <2>1, SccOutside, SccInsertStart, SccScan, SccEvictOrder, SccEvictEntry, SccTock, SccFill
<1>3. QED
  BY <1>1, <1>2

\* cache.rs and lru.rs: for any number of tasks, contexts and entries, however
\* lock-free accesses cross an insert and its eviction, every cached context is
\* in the access order (or is just being evicted), and the capacity is exceeded
\* by at most one entry for each insert that found all entries in use.
THEOREM CacheProved == SccSpec => [](SccTypeOK /\ EveryEntryListed /\ OverflowExplained)
<1>1. SccInv => SccTypeOK /\ EveryEntryListed /\ OverflowExplained
  <2> SUFFICES ASSUME SccInv PROVE SccTypeOK
    BY DEF SccInv
  <2>1. Cardinality(insertHeld) <= 1
    <3>1. CASE insertHeld = {}
      BY <3>1, FS_EmptySet
    <3>2. CASE insertHeld # {}
      <4>1. PICK u \in insertHeld : TRUE
        BY <3>2
      <4>2. insertHeld = {u}
        BY <4>1 DEF SccInv, InsertLockOK
      <4>3. Cardinality({u}) = 1
        BY FS_Singleton
      <4>4. QED
        BY <4>2, <4>3
    <3>3. QED
      BY <3>1, <3>2
  <2>2. overflows \in 0 .. MaxCacheCalls
    BY SccAssumption DEF SccInv, SccTypes, OverflowsCounted
  <2>3. \A u \in CacheUser :
          /\ (u \in insertHeld) <=> user[u].pc \in {"scan", "evict", "tick", "fill"}
          /\ user[u].left \subseteq Context /\ user[u].may \subseteq Context
          /\ holds[u] \subseteq Context \X (1 .. MaxCacheCalls)
    BY DEF SccInv, SccTypes, InsertLockOK, UserType, InInsert
  <2>4. QED
    BY <2>1, <2>2, <2>3 DEF SccTypeOK, SccInv, SccTypes
<1>2. QED
  BY <1>1, SccStarts, SccSteps, PTL DEF SccSpec
=============================================================================
