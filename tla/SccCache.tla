------------------------------ MODULE SccCache ------------------------------
(***************************************************************************)
(* The speculative context cache (crates/scc-cache, cache.rs and lru.rs):  *)
(* entries and access_order are two DashMaps.  insert holds insert_lock;   *)
(* get_or_prefetch and warm_entry do not.  An entry whose Arc is held      *)
(* outside of the cache is not evicted.                                    *)
(*                                                                         *)
(* The ticks of access_order only say which victim is taken; here any      *)
(* entry that may be one is.  An entry is the number of its insertion.     *)
(***************************************************************************)
EXTENDS Integers, FiniteSets

CONSTANTS
    Context,       \* ContextIds
    CacheUser,     \* tasks that call the cache
    CacheSize,     \* config.capacity
    MaxCacheCalls  \* bound: calls made

NoContext == "nocontext"

ASSUME SccAssumption ==
    CacheSize \in Nat \ {0} /\ MaxCacheCalls \in Nat /\ NoContext \notin Context

VARIABLES
    entries,       \* SccCache.entries; 0 for none
    accessOrder,   \* the keys of SccCache.access_order
    insertHeld,    \* who holds insert_lock
    user,          \* where each task is
    holds,         \* the Arcs a task holds: contexts and their entries
    cacheCalls,    \* calls made
    overflows      \* inserts that found every entry in use

sccVars == <<entries, accessOrder, insertHeld, user, holds, cacheCalls, overflows>>

Away == [pc |-> "away", id |-> NoContext, left |-> {}, may |-> {}]
Cached == {x \in Context : entries[x] # 0}

SccInit ==
    /\ entries = [x \in Context |-> 0] /\ accessOrder = {} /\ insertHeld = {}
    /\ user = [u \in CacheUser |-> Away]
    /\ holds = [u \in CacheUser |-> {}]
    /\ cacheCalls = 0 /\ overflows = 0

UserAt(u, pc)  == user[u].pc = pc
Move(u, w)     == user' = [user EXCEPT ![u] = w]
Begins(u, w)   ==
    UserAt(u, "away") /\ cacheCalls < MaxCacheCalls /\ cacheCalls' = cacheCalls + 1 /\ Move(u, w)

\* strong_count = 1: nobody outside holds the Arc that the cache holds.
Unheld(x) == \A u \in CacheUser : <<x, entries[x]>> \notin holds[u]

\* get_or_prefetch and warm_entry: the Arc is cloned, or there is none.
Get(u, x) ==
    /\ IF entries[x] = 0 THEN Begins(u, Away) /\ UNCHANGED holds
       ELSE /\ Begins(u, [Away EXCEPT !.pc = "stamp", !.id = x])
            /\ holds' = [holds EXCEPT ![u] = @ \cup {<<x, entries[x]>>}]
    /\ UNCHANGED <<entries, accessOrder, insertHeld, overflows>>

\* The tick of the access, whether or not the entry is still there.
StampAccess(u) ==
    /\ UserAt(u, "stamp")
    /\ accessOrder' = accessOrder \cup {user[u].id}
    /\ Move(u, Away)
    /\ UNCHANGED <<entries, insertHeld, holds, cacheCalls, overflows>>

\* The caller drops the Arc it was given.
Release(u) ==
    /\ UserAt(u, "away") /\ holds[u] # {}
    /\ \E h \in holds[u] : holds' = [holds EXCEPT ![u] = @ \ {h}]
    /\ UNCHANGED <<entries, accessOrder, insertHeld, user, cacheCalls, overflows>>

\* insert: the lock, then whether an entry has to go.
InsertStart(u, x) ==
    /\ insertHeld = {} /\ insertHeld' = {u}
    /\ Begins(u, IF x \notin Cached /\ Cardinality(Cached) >= CacheSize
                 THEN [Away EXCEPT !.pc = "scan", !.id = x, !.left = accessOrder]
                 ELSE [Away EXCEPT !.pc = "tick", !.id = x])
    /\ UNCHANGED <<entries, accessOrder, holds, overflows>>

\* select_victim looks at one id after the other, each at its own moment.
Scan(u) ==
    /\ UserAt(u, "scan")
    /\ \E x \in user[u].left :
          Move(u, [user[u] EXCEPT !.left = @ \ {x},
                                  !.may = IF x \in Cached /\ Unheld(x) THEN @ \cup {x} ELSE @])
    /\ UNCHANGED <<entries, accessOrder, insertHeld, holds, cacheCalls, overflows>>

\* insert: the victim leaves the order; without one the cache overflows.
EvictOrder(u) ==
    /\ UserAt(u, "scan") /\ user[u].left = {}
    /\ IF user[u].may = {}
       THEN /\ Move(u, [user[u] EXCEPT !.pc = "tick"])
            /\ overflows' = overflows + 1
            /\ UNCHANGED accessOrder
       ELSE \E v \in user[u].may :
              /\ accessOrder' = accessOrder \ {v}
              /\ Move(u, [user[u] EXCEPT !.pc = "evict", !.may = {v}])
              /\ UNCHANGED overflows
    /\ UNCHANGED <<entries, insertHeld, holds, cacheCalls>>

\* ... then the entries.
EvictEntry(u) ==
    /\ UserAt(u, "evict")
    /\ entries' = [x \in Context |-> IF x \in user[u].may THEN 0 ELSE entries[x]]
    /\ Move(u, [user[u] EXCEPT !.pc = "tick", !.may = {}])
    /\ UNCHANGED <<accessOrder, insertHeld, holds, cacheCalls, overflows>>

\* insert: the new id enters the order ...
Tock(u) ==
    /\ UserAt(u, "tick")
    /\ accessOrder' = accessOrder \cup {user[u].id}
    /\ Move(u, [user[u] EXCEPT !.pc = "fill"])
    /\ UNCHANGED <<entries, insertHeld, holds, cacheCalls, overflows>>

\* ... then the entries, and the lock is given back.
Fill(u) ==
    /\ UserAt(u, "fill")
    /\ entries' = [entries EXCEPT ![user[u].id] = cacheCalls]
    /\ insertHeld' = {}
    /\ Move(u, Away)
    /\ UNCHANGED <<accessOrder, holds, cacheCalls, overflows>>

SccNext ==
    \E u \in CacheUser :
        \/ \E x \in Context : Get(u, x) \/ InsertStart(u, x)
        \/ StampAccess(u) \/ Release(u)
        \/ Scan(u) \/ EvictOrder(u) \/ EvictEntry(u) \/ Tock(u) \/ Fill(u)

SccSpec == SccInit /\ [][SccNext]_sccVars

-----------------------------------------------------------------------------
(* Properties.                                                             *)

\* The types; the lock belongs to the one task inside insert.
SccTypeOK ==
    /\ entries \in [Context -> 0..MaxCacheCalls] /\ accessOrder \subseteq Context
    /\ \A u \in CacheUser :
          /\ (u \in insertHeld) <=> user[u].pc \in {"scan", "evict", "tick", "fill"}
          /\ user[u].left \subseteq Context /\ user[u].may \subseteq Context
          /\ holds[u] \subseteq Context \X (1..MaxCacheCalls)
    /\ Cardinality(insertHeld) <= 1
    /\ cacheCalls \in 0..MaxCacheCalls /\ overflows \in 0..MaxCacheCalls

\* Every entry can be found by a later scan, however accesses that hold no lock
\* cross an eviction: only the victim that is just going is out of the order
\* (cache.rs, insert and get_or_prefetch on the two maps).
EveryEntryListed ==
    \A x \in Cached \ accessOrder : \E u \in insertHeld : UserAt(u, "evict") /\ x \in user[u].may

\* The capacity is exceeded only by inserts that found every entry in use, and
\* by one entry for each of them.  (The excess is never given back: a later
\* insert evicts one entry and adds one.)
OverflowExplained ==
    Cardinality(Cached) <= CacheSize + overflows
=============================================================================
