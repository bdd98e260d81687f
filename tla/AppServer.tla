----------------------------- MODULE AppServer -----------------------------
(***************************************************************************)
(* The session table of crates/nexus-app-server: AppServer.sessions, a     *)
(* DashMap, and the operations of handle_op on it, called by several       *)
(* clients at once.                                                        *)
(*                                                                         *)
(* A DashMap guard locks a whole shard.  Most accesses take and leave it   *)
(* in one step.  Two keep one while they ask for another: thread_fork      *)
(* inserts the child under the guard of the parent, and iter_mut holds the *)
(* shard it has finished until it has the next one.                        *)
(*                                                                         *)
(* An item is its turn and the number of the call that made it; turn 0 is  *)
(* "turn-fork".  persist_turn is modelled in TurnLog, the pending requests *)
(* in Approvals.                                                           *)
(***************************************************************************)
EXTENDS Integers, Sequences, FiniteSets

CONSTANTS
    Thread,          \* thread ids that clients start
    AppCall,       \* clients
    Buckets,       \* number of shards of the DashMap
    MaxSessions,   \* config.max_sessions, 0 for no limit
    MaxDepth,      \* bound: forks of forks
    MaxAppOps      \* bound: operations

ASSUME AppServerAssumption ==
    /\ Buckets \in Nat \ {0} /\ MaxSessions \in Nat
    /\ MaxDepth \in Nat /\ MaxAppOps \in Nat
    /\ Thread # {}

\* A thread id is a root followed by a number of "-fork".
ThreadId   == Thread \X (0 .. MaxDepth)
ForkId(k)  == <<k[1], k[2] + 1>>
Mode       == {"plan", "accept"}

VARIABLES
    place,         \* the shard of a thread id
    table,         \* sessions
    client,        \* the calls under way
    appOps,        \* operations so far: numbers of the items
    completed,      \* items of turns that ended with TurnCompleted, with their thread
    overwritten    \* thread ids whose actor was replaced by an insert

appVars == <<place, table, client, appOps, completed, overwritten>>

NoActor     == [turns |-> <<>>, items |-> <<>>, own |-> 0, mode |-> "none"]
NewActor    == [NoActor EXCEPT !.mode = "default"]
NoOp        == [pc |-> "idle", key |-> CHOOSE k \in ThreadId : TRUE, num |-> 0, turn |-> 0,
                child |-> NoActor, mode |-> "none", bucket |-> 0]
Sessions    == {k \in ThreadId : table[k] # NoActor}

AppInit ==
    /\ place \in [ThreadId -> 1 .. Buckets]
    /\ table = [k \in ThreadId |-> NoActor]
    /\ client = [c \in AppCall |-> NoOp]
    /\ appOps = 0 /\ completed = {} /\ overwritten = {}

-----------------------------------------------------------------------------
(* The guards.                                                             *)

ClientAt(c, pc) == client[c].pc = pc

\* Mutant: turn_submit keeps its guard while the backend works.
HeldByTurnToo(c) ==
    CASE ClientAt(c, "fork_insert")                       -> {place[client[c].key]}
      [] ClientAt(c, "backend") \/ ClientAt(c, "fill")    -> {place[client[c].key]}
      [] OTHER                                            -> {client[c].bucket}

\* The shards whose guard a call keeps between two steps (0: none).
HeldBy(c) == IF ClientAt(c, "fork_insert") THEN {place[client[c].key]} ELSE {client[c].bucket}

\* A read guard needs a shard that nobody writes, a write guard a free shard:
\* free of the caller's own guards, too.
Reading(c)  == ClientAt(c, "fork_insert")
MayRead(b)  == \A c \in AppCall : b \in HeldBy(c) => Reading(c)
MayWrite(b) == \A c \in AppCall : b \notin HeldBy(c)

-----------------------------------------------------------------------------
(* Operations.                                                             *)

Begin(c, pc, k) ==
    /\ ClientAt(c, "idle") /\ appOps < MaxAppOps
    /\ appOps' = appOps + 1
    /\ client' = [client EXCEPT ![c] = [NoOp EXCEPT !.pc = pc, !.key = k, !.num = appOps + 1]]

Continue(c, pc) == client' = [client EXCEPT ![c].pc = pc]
Reply(c)        == client' = [client EXCEPT ![c] = NoOp]

\* DashMap::insert.
Put(k, a) ==
    /\ MayWrite(place[k])
    /\ table' = [table EXCEPT ![k] = a]
    /\ overwritten' = IF k \in Sessions THEN overwritten \cup {k} ELSE overwritten

\* thread_start: the limit ...
ThreadStart(c, k) ==
    /\ k[2] = 0
    /\ \A b \in 1 .. Buckets : MayRead(b)
    /\ IF MaxSessions > 0 /\ Cardinality(Sessions) >= MaxSessions
       THEN ClientAt(c, "idle") /\ UNCHANGED <<client, appOps>>
       ELSE Begin(c, "start_key", k)
    /\ UNCHANGED <<place, table, completed, overwritten>>

\* ... the key ...
StartKey(c) ==
    /\ ClientAt(c, "start_key") /\ MayRead(place[client[c].key])
    /\ IF client[c].key \in Sessions THEN Reply(c) ELSE Continue(c, "start_insert")
    /\ UNCHANGED <<place, table, appOps, completed, overwritten>>

\* ... the actor, and the first turn if there is an initial input.
StartInsert(c) ==
    /\ ClientAt(c, "start_insert")
    /\ Put(client[c].key, NewActor)
    /\ Reply(c) \/ Continue(c, "turn")
    /\ UNCHANGED <<place, appOps, completed>>

TurnSubmit(c, k) ==
    /\ Begin(c, "turn", k)
    /\ UNCHANGED <<place, table, completed, overwritten>>

\* Mutant: the turn is numbered by the items, which come later.
TurnNumberByItems(a) == Len(a.items) + 1

TurnNumber(a) == Len(a.turns) + 1

\* turn_submit, phase 1: a number for the turn, under the guard.
TurnBegin(c) ==
    LET k == client[c].key IN
    /\ ClientAt(c, "turn") /\ MayWrite(place[k])
    /\ IF k \in Sessions
       THEN /\ table' = [table EXCEPT ![k].turns = Append(@, TurnNumber(table[k]))]
            /\ client' = [client EXCEPT ![c].pc = "backend", ![c].turn = TurnNumber(table[k])]
       ELSE Reply(c) /\ UNCHANGED table
    /\ UNCHANGED <<place, appOps, completed, overwritten>>

\* Phase 2: the backend answers, or fails, or the call is dropped at the await.
Backend(c) ==
    /\ ClientAt(c, "backend")
    /\ Continue(c, "fill") \/ Reply(c)
    /\ UNCHANGED <<place, table, appOps, completed, overwritten>>

\* Phase 3: its items go into the history of whatever actor is there now.
TurnFill(c) ==
    LET k    == client[c].key
        item == <<client[c].turn, client[c].num>>
    IN
    /\ ClientAt(c, "fill") /\ MayWrite(place[k])
    /\ table' = [table EXCEPT ![k].items = Append(@, item)]
    /\ completed' = completed \cup {<<k, item>>}
    /\ Reply(c)
    /\ UNCHANGED <<place, appOps, overwritten>>

\* thread_fork: the prefix up to the fork point is copied under the guard of the
\* parent, which is kept ...
ThreadFork(c, k, i) ==
    LET child == [NewActor EXCEPT
                    !.turns = <<0>>,
                    !.items = Append(SubSeq(table[k].items, 1, i), <<0, appOps + 1>>),
                    !.own   = i]
    IN
    /\ k \in Sessions /\ k[2] < MaxDepth /\ i \in DOMAIN table[k].items
    /\ MayRead(place[k])
    /\ ClientAt(c, "idle") /\ appOps < MaxAppOps
    /\ appOps' = appOps + 1
    /\ client' = [client EXCEPT ![c] = [NoOp EXCEPT !.pc = "fork_insert", !.key = k, !.child = child]]
    /\ UNCHANGED <<place, table, completed, overwritten>>

\* ... while the child is inserted.
ForkInsert(c) ==
    /\ ClientAt(c, "fork_insert")
    /\ Put(ForkId(client[c].key), client[c].child)
    /\ Reply(c)
    /\ UNCHANGED <<place, appOps, completed>>

\* mode_set and the search of approval_respond (mode "none") sweep the shards.
StartSweep(c, m) ==
    /\ ClientAt(c, "idle") /\ appOps < MaxAppOps
    /\ appOps' = appOps + 1
    /\ client' = [client EXCEPT ![c] = [NoOp EXCEPT !.pc = "sweep", !.mode = m]]
    /\ UNCHANGED <<place, table, completed, overwritten>>

\* The actors of a shard after mode_set has been there.
Swept(b, m) ==
    [k \in ThreadId |-> IF k \in Sessions /\ place[k] = b /\ m \in Mode
                        THEN [table[k] EXCEPT !.mode = m] ELSE table[k]]

\* iter_mut: the next shard; the end of the table, or the request was found.
Sweep(c) ==
    LET b == client[c].bucket + 1 IN
    /\ ClientAt(c, "sweep")
    /\ \/ /\ b <= Buckets /\ MayWrite(b)
          /\ table' = Swept(b, client[c].mode)
          /\ client' = [client EXCEPT ![c].bucket = b]
       \/ /\ b > Buckets \/ (b > 1 /\ client[c].mode = "none")
          /\ Reply(c) /\ UNCHANGED table
    /\ UNCHANGED <<place, appOps, completed, overwritten>>

AppNext ==
    \E c \in AppCall :
        \/ \E k \in ThreadId : ThreadStart(c, k) \/ TurnSubmit(c, k)
        \/ StartKey(c) \/ StartInsert(c)
        \/ TurnBegin(c) \/ Backend(c) \/ TurnFill(c)
        \/ \E k \in ThreadId : \E i \in 1 .. Len(table[k].items) : ThreadFork(c, k, i)
        \/ ForkInsert(c)
        \/ \E m \in Mode \cup {"none"} : StartSweep(c, m)
        \/ Sweep(c)

AppSpec == AppInit /\ [][AppNext]_appVars

-----------------------------------------------------------------------------
(* Properties.                                                             *)

AppTypeOK ==
    /\ place \in [ThreadId -> 1 .. Buckets]
    /\ appOps \in 0 .. MaxAppOps /\ overwritten \subseteq ThreadId
    /\ \A c \in AppCall :
         /\ client[c].pc \in {"idle", "start_key", "start_insert", "turn", "backend", "fill",
                              "fork_insert", "sweep"}
         /\ client[c].key \in ThreadId /\ client[c].bucket \in 0 .. Buckets
    /\ \A k \in ThreadId : table[k].mode \in {"none", "default"} \cup Mode

\* The shard a call waits for, 0 when it waits for none.
Wanted(c) ==
    LET k == client[c].key IN
    CASE client[c].pc \in {"start_insert", "turn", "fill"}                   -> place[k]
      [] ClientAt(c, "fork_insert")                                          -> place[ForkId(k)]
      [] ClientAt(c, "sweep") /\ client[c].bucket < Buckets                  -> client[c].bucket + 1
      [] OTHER                                                               -> 0

\* server.rs handle_op: calls wait for each other in a circle (one call for
\* itself, when parent and child share a shard) only if a thread_fork is among
\* them, which inserts under a guard.  Whatever else runs at the same time,
\* turns, starts and the sweeps of mode_set and approval_respond, comes to its
\* end.
StuckOnlyByFork ==
    \A S \in (SUBSET AppCall) \ {{}} :
        (\A c \in S : Wanted(c) # 0 /\ \E d \in S : Wanted(c) \in HeldBy(d))
        => \E c \in S : ClientAt(c, "fork_insert")

\* server.rs turn_submit: while turns of one session overlap, fail and complete
\* in any order, their numbers stay apart, an item belongs to a turn of the
\* session (or was inherited from the parent), and what a client was told is in
\* the history, unless the actor was replaced: by a second fork of the same
\* parent, or by a start that overlapped another.
HistoryKept ==
    \A k \in Sessions \ overwritten :
        LET a == table[k] IN
        /\ \A i, j \in DOMAIN a.turns : a.turns[i] = a.turns[j] => i = j
        /\ \A i \in a.own + 1 .. Len(a.items) : \E j \in DOMAIN a.turns : a.turns[j] = a.items[i][1]
        /\ \A r \in completed : r[1] = k => \E i \in DOMAIN a.items : a.items[i] = r[2]

\* server.rs mode_set: two switches that overlap do not leave the sessions they
\* met in different modes, since neither can overtake the other in the table.
ModesAgree ==
    (\A c \in AppCall : client[c].mode = "none") =>
        \A j, k \in ThreadId : {table[j].mode, table[k].mode} \subseteq Mode => table[j].mode = table[k].mode
=============================================================================
