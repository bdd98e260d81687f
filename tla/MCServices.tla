----------------------------- MODULE MCServices -----------------------------
(***************************************************************************)
(* One model-checking run for the services that share no state: part says  *)
(* which of them moves, and the others stay in an initial state.  The      *)
(* reachable states are those of the parts side by side, so every check is *)
(* the check of each part on its own.                                      *)
(***************************************************************************)
EXTENDS SessionStore, TieredStore, QuestEngine, PeerScheduler, SubAgent, TaskDag, Approvals, Gateway,
        SccCache, AppServer

VARIABLE part      \* the service that moves

Parts == {"forks", "tiers", "quests", "peers", "subagents", "dag", "approvals", "gateway", "cache",
          "sessions"}

\* The one initial state in which the services with several of them rest.
PeersAtRest == broker = TRUE /\ limited = TRUE
DagAtRest   ==
    idOf = [i \in Index |-> i] /\ depsOf = [i \in Index |-> {}] /\ times = 1
SessionsAtRest == place = [k \in ThreadId |-> 1]

ServicesInit ==
    /\ part \in Parts
    /\ part # "peers" => PeersAtRest
    /\ part # "dag" => DagAtRest
    /\ part # "sessions" => SessionsAtRest
    /\ Init /\ TierInit /\ QuestInit /\ SchedInit /\ SubInit /\ DagInit /\ ApprovalInit
    /\ GatewayInit /\ SccInit /\ AppInit

RestBut(p) ==
    /\ part = p /\ UNCHANGED part
    /\ p # "forks" => UNCHANGED vars
    /\ p # "tiers" => UNCHANGED tierVars
    /\ p # "quests" => UNCHANGED questVars
    /\ p # "peers" => UNCHANGED schedVars
    /\ p # "subagents" => UNCHANGED subVars
    /\ p # "dag" => UNCHANGED dagVars
    /\ p # "approvals" => UNCHANGED approvalVars
    /\ p # "gateway" => UNCHANGED gatewayVars
    /\ p # "cache" => UNCHANGED sccVars
    /\ p # "sessions" => UNCHANGED appVars

ServicesNext ==
    \/ RestBut("forks") /\ Next
    \/ RestBut("tiers") /\ TierNext
    \/ RestBut("quests") /\ QuestNext
    \/ RestBut("peers") /\ SchedNext
    \/ RestBut("subagents") /\ SubNext
    \/ RestBut("dag") /\ DagNext
    \/ RestBut("approvals") /\ ApprovalNext
    \/ RestBut("gateway") /\ GatewayNext
    \/ RestBut("cache") /\ SccNext
    \/ RestBut("sessions") /\ AppNext

ServicesSpec ==
    ServicesInit /\ [][ServicesNext]_<<part, vars, tierVars, questVars, schedVars, subVars, dagVars,
                                       approvalVars, gatewayVars, sccVars, appVars>>

\* The types of every service and the bounds it keeps: forks of forks show what
\* they inherited, the hot tier and the checkpoint directory hold no more than
\* their limits, a paused quest is registered, a peer is let through no more
\* often than its window allows and keeps what it was granted, sub-agents do
\* not nest, Kahn's loop makes progress, the gateway's cost guard and circuit
\* breaker open only when they should, every cached context can be found for
\* eviction, and turns of one session keep their numbers and histories apart.
ServicesInv ==
    CASE part = "forks"     -> TypeOK /\ ForkSeesPrefix
      [] part = "tiers"     -> TierTypeOK /\ HotWithinCapacity
      [] part = "quests"    -> QuestTypeOK /\ DirectoryBounded /\ PausedIsRegistered
      [] part = "peers"     -> SchedTypeOK /\ RateBounded /\ GrantHonoured
      [] part = "subagents" -> SubTypeOK /\ NoNesting
      [] part = "dag"       -> DagTypeOK /\ DagLoop
      [] part = "approvals" -> ApprovalTypeOK
      [] part = "gateway"   -> GatewayTypeOK /\ OverrunAnnounced /\ BreakerEarned
      [] part = "cache"     -> SccTypeOK /\ EveryEntryListed /\ OverflowExplained
      [] part = "sessions"  -> AppTypeOK /\ HistoryKept /\ ModesAgree
=============================================================================
