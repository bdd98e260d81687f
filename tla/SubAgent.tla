------------------------------ MODULE SubAgent ------------------------------
(***************************************************************************)
(* Sub-agents and their cancellation tokens (crates/nexus-subagent).       *)
(*                                                                         *)
(* SubAgentRuntime owns a JoinSet of tasks and a guard that forbids a      *)
(* sub-agent to start another one; its methods take &mut self and are      *)
(* single steps.  A token is shared: cancel swaps the flag, then stores    *)
(* the reason, then wakes the waiters; a reader loads the flag, then the   *)
(* reason.  Those loads and stores are steps.                              *)
(***************************************************************************)
EXTENDS Integers, FiniteSets

CONSTANTS
    MaxSpawns,     \* bound: tasks spawned
    Canceller,     \* threads that cancel tokens
    Watcher,       \* threads that read tokens
    Reason,        \* the members of CancelReason that occur, ParentRevoked among them
    SwarmLimit     \* SWARM_LIMIT

\* Task ids are fresh for every spawn: numbers in the order of the spawns.
Sub   == 1..MaxSpawns
NoSub == 0

ASSUME SubAssumption ==
    MaxSpawns \in Nat /\ SwarmLimit \in Nat \ {0} /\ "parent" \in Reason

VARIABLES
    state,         \* life of a task: unborn, queued, running, done, joined
    parent,        \* from_task of the spawn
    guard,         \* keys of nesting_guard
    flag,          \* CancellationToken.cancelled
    reason,        \* CancellationToken.reason; 0 before the store
    cancel,        \* cancel calls under way: token, reason, step
    watch,         \* reason() calls under way
    first,         \* the reason of the cancel call that won the token
    told           \* reasons that reason(), poll() or cancelled() returned for a token

subVars == <<state, parent, guard, flag, reason, cancel, watch, first, told>>

Unset    == "unset"
NoCancel == [on |-> NoSub, why |-> Unset, pc |-> "idle"]
NoWatch  == [on |-> NoSub, pc |-> "idle"]
Active   == {t \in Sub : state[t] \in {"queued", "running", "done"}}

SubInit ==
    /\ state = [t \in Sub |-> "unborn"]
    /\ parent = [t \in Sub |-> NoSub]
    /\ guard = {}
    /\ flag = [t \in Sub |-> FALSE]
    /\ reason = [t \in Sub |-> Unset]
    /\ cancel = [c \in Canceller |-> NoCancel]
    /\ watch = [w \in Watcher |-> NoWatch]
    /\ first = [t \in Sub |-> Unset]
    /\ told = [t \in Sub |-> {}]

tokenVars == <<flag, reason, cancel, watch, first, told>>

-----------------------------------------------------------------------------
(* The runtime.                                                            *)

\* The nesting guard of spawn.
MayNest(from) == from \notin guard

\* The limit on the JoinSet.
SwarmFull == Cardinality(Active) >= SwarmLimit

\* spawn: the auction always lets the task through, with a winner or without.
Spawn(t, from) ==
    /\ state[t] = "unborn" /\ \A u \in 1..(t - 1) : state[u] # "unborn"
    /\ from # NoSub => state[from] # "unborn"
    /\ ~SwarmFull
    /\ MayNest(from)
    /\ state' = [state EXCEPT ![t] = "queued"]
    /\ parent' = [parent EXCEPT ![t] = from]
    /\ guard' = guard \cup {t}
    /\ UNCHANGED tokenVars

\* The reason a reader reports for the code it loaded.
Decode(code) == IF code = Unset THEN "parent" ELSE code

\* The first poll of the task looks at the token once and gives up, or starts
\* the blocking closure.
Start(t) ==
    /\ state[t] = "queued"
    /\ IF flag[t]
       THEN /\ state' = [state EXCEPT ![t] = "done"]
            /\ told' = [told EXCEPT ![t] = @ \cup {Decode(reason[t])}]
       ELSE /\ state' = [state EXCEPT ![t] = "running"]
            /\ UNCHANGED told
    /\ UNCHANGED <<parent, guard, flag, reason, cancel, watch, first>>

\* The closure returns, or panics and is turned into an error.
End(t) ==
    /\ state[t] = "running"
    /\ state' = [state EXCEPT ![t] = "done"]
    /\ UNCHANGED <<parent, guard, tokenVars>>

\* join_next_typed.
Join(t) ==
    /\ state[t] = "done"
    /\ state' = [state EXCEPT ![t] = "joined"]
    /\ guard' = guard \ {t}
    /\ UNCHANGED <<parent, tokenVars>>

-----------------------------------------------------------------------------
(* The token.                                                              *)

\* Mutant: the previous value of the flag is ignored.
WonAlways(t) == TRUE

\* swap returned 0.
Won(t) == ~flag[t]

\* cancel: the swap; a second call returns here.
Swap(c, t, why) ==
    /\ cancel[c].pc = "idle" /\ state[t] # "unborn"
    /\ flag' = [flag EXCEPT ![t] = TRUE]
    /\ IF Won(t)
       THEN /\ cancel' = [cancel EXCEPT ![c] = [on |-> t, why |-> why, pc |-> "store"]]
            /\ first' = [first EXCEPT ![t] = IF @ = Unset THEN why ELSE @]
       ELSE UNCHANGED <<cancel, first>>
    /\ UNCHANGED <<state, parent, guard, reason, watch, told>>

\* cancel: the reason is stored after the flag; the wake-up follows.
Store(c) ==
    /\ cancel[c].pc = "store"
    /\ reason' = [reason EXCEPT ![cancel[c].on] = cancel[c].why]
    /\ cancel' = [cancel EXCEPT ![c] = NoCancel]
    /\ UNCHANGED <<state, parent, guard, flag, watch, first, told>>

\* reason(): the flag is loaded, ...
LoadFlag(w, t) ==
    /\ watch[w].pc = "idle" /\ state[t] # "unborn"
    /\ flag[t]
    /\ watch' = [watch EXCEPT ![w] = [on |-> t, pc |-> "load"]]
    /\ UNCHANGED <<state, parent, guard, flag, reason, cancel, first, told>>

\* ... then the reason.
LoadReason(w) ==
    /\ watch[w].pc = "load"
    /\ told' = [told EXCEPT ![watch[w].on] = @ \cup {Decode(reason[watch[w].on])}]
    /\ watch' = [watch EXCEPT ![w] = NoWatch]
    /\ UNCHANGED <<state, parent, guard, flag, reason, cancel, first>>

SubNext ==
    \/ \E t \in Sub : \/ \E from \in Sub \cup {NoSub} : Spawn(t, from)
                      \/ Start(t) \/ End(t) \/ Join(t)
                      \/ \E c \in Canceller, why \in Reason : Swap(c, t, why)
                      \/ \E w \in Watcher : LoadFlag(w, t)
    \/ \E c \in Canceller : Store(c)
    \/ \E w \in Watcher : LoadReason(w)

SubSpec == SubInit /\ [][SubNext]_subVars

-----------------------------------------------------------------------------
(* Properties.                                                             *)

SubTypeOK ==
    /\ state \in [Sub -> {"unborn", "queued", "running", "done", "joined"}]
    /\ parent \in [Sub -> Sub \cup {NoSub}]
    /\ guard \subseteq Sub
    /\ flag \in [Sub -> BOOLEAN]
    /\ reason \in [Sub -> Reason \cup {Unset}] /\ first \in [Sub -> Reason \cup {Unset}]
    /\ cancel \in [Canceller -> [on : Sub \cup {NoSub}, why : Reason \cup {Unset},
                                 pc : {"idle", "store"}]]
    /\ watch \in [Watcher -> [on : Sub \cup {NoSub}, pc : {"idle", "load"}]]
    /\ told \in [Sub -> SUBSET Reason]
    /\ Cardinality(Active) <= SwarmLimit

\* The first cause wins: whatever order cancel calls and readers interleave in,
\* a token never reports the reason of a cancel call that came second.  What it
\* may report instead is ParentRevoked, to a reader that falls between the flag
\* and the reason (cancel.rs, reason and cancel).
FirstCauseWins ==
    \A t \in Sub : told[t] \subseteq {first[t], "parent"}

\* A sub-agent never has a living sub-agent of its own: a task that is queued,
\* running or finished but not yet joined was not started by another such
\* task (runtime.rs, the nesting guard of spawn).
NoNesting ==
    \A t \in Active : parent[t] # NoSub => state[parent[t]] = "joined"
=============================================================================
